---------------------------- MODULE Spec2Model ----------------------------
(***************************************************************************)
(* A model of the voter-record extraction engine of the repository         *)
(* (final_voter_processor.py, pdf_voter_processor.py).                      *)
(*                                                                         *)
(* Text is a sequence of characters.  An ASCII character stands for        *)
(* itself; a Devanagari code point is written by its Unicode name:         *)
(* a consonant "ka", "ma", an independent vowel "vA", "vII", a vowel sign  *)
(* "+aa", "+u", a sign "+virama", "+anusvara", a digit "d0".."d9".         *)
(***************************************************************************)
EXTENDS Integers, Sequences, FiniteSets, TLC

(***************************************************************************)
(* Characters and the Python string operations the code uses.              *)
(***************************************************************************)
AsciiDigits == {"0", "1", "2", "3", "4", "5", "6", "7", "8", "9"}

DevanagariDigits == {"d0", "d1", "d2", "d3", "d4", "d5", "d6", "d7", "d8", "d9"}

\* A run of 4301 digits 9, written as one character: more digits than int()
\* converts where the interpreter limits them.  Only texts handed to
\* parse_voter_entry hold it.
NINES == "9{4301}"

\* re's \d on str patterns: every Unicode decimal digit.
IsDigit(c) == c \in AsciiDigits \cup DevanagariDigits \cup {NINES}

\* re's \s and str.split()/str.strip() whitespace.
IsSpace(c) == c \in {" ", "\n", "\t"}

\* s[i..] starts with p
StartsAt(s, p, i) ==
  /\ i + Len(p) - 1 <= Len(s)
  /\ \A k \in 1..Len(p) : s[i + k - 1] = p[k]

\* p in s
Contains(s, p) == \E i \in 1..(Len(s) - Len(p) + 1) : StartsAt(s, p, i)

RECURSIVE ReplaceFrom(_, _, _, _)
ReplaceFrom(s, old, new, i) ==
  IF i > Len(s) THEN <<>>
  ELSE IF StartsAt(s, old, i)
       THEN new \o ReplaceFrom(s, old, new, i + Len(old))
       ELSE <<s[i]>> \o ReplaceFrom(s, old, new, i + 1)

\* s.replace(old, new), old non-empty: leftmost non-overlapping occurrences.
StrReplace(s, old, new) == IF Contains(s, old) THEN ReplaceFrom(s, old, new, 1) ELSE s

RECURSIVE ReplaceRange(_, _, _, _)
\* for old, new in table.items(): s = s.replace(old, new)   (entries lo..hi, in
\* order).  The range is halved and each half is evaluated before the next
\* starts, which keeps the evaluation shallow; an empty string stays empty.
ReplaceRange(s, table, lo, hi) ==
  IF lo > hi \/ s = <<>> THEN s
  ELSE IF lo = hi THEN StrReplace(s, table[lo][1], table[lo][2])
  ELSE LET mid  == (lo + hi) \div 2
           left == ReplaceRange(s, table, lo, mid)
       IN IF left = <<>> THEN <<>> ELSE ReplaceRange(left, table, mid + 1, hi)

ReplaceEach(s, table) == ReplaceRange(s, table, 1, Len(table))

RECURSIVE CollapseFrom(_, _)
CollapseFrom(s, i) ==
  IF i > Len(s) THEN <<>>
  ELSE IF IsSpace(s[i])
       THEN IF i > 1 /\ IsSpace(s[i - 1])
            THEN CollapseFrom(s, i + 1)
            ELSE <<" ">> \o CollapseFrom(s, i + 1)
       ELSE <<s[i]>> \o CollapseFrom(s, i + 1)

\* re.sub(r'\s+', ' ', s)
CollapseSpaces(s) == CollapseFrom(s, 1)

RECURSIVE LStrip(_)
LStrip(s) == IF s # <<>> /\ IsSpace(Head(s)) THEN LStrip(Tail(s)) ELSE s

RECURSIVE RStrip(_)
RStrip(s) ==
  IF s # <<>> /\ IsSpace(s[Len(s)]) THEN RStrip(SubSeq(s, 1, Len(s) - 1)) ELSE s

\* s.strip()
Strip(s) == RStrip(LStrip(s))

RECURSIVE Flatten(_)
\* ''.join(parts)
Flatten(parts) == IF parts = <<>> THEN <<>> ELSE Head(parts) \o Flatten(Tail(parts))

\* the text of a glyph placeholder, '(cid:<digits>)'
CidOpen == <<"(", "c", "i", "d", ":">>

Cid(digits) == CidOpen \o digits \o <<")">>

RECURSIVE DigitRunEnd(_, _)
\* the index just after the longest run of digits that starts at i
DigitRunEnd(s, i) ==
  IF i <= Len(s) /\ IsDigit(s[i]) THEN DigitRunEnd(s, i + 1) ELSE i

\* where a match of r'\(cid:\d+\)' that starts at i ends (the index after it), 0 if none
CidTokenEnd(s, i) ==
  IF ~StartsAt(s, CidOpen, i) THEN 0
  ELSE LET j == i + Len(CidOpen)
           k == DigitRunEnd(s, j)
       IN IF k > j /\ k <= Len(s) /\ s[k] = ")" THEN k + 1 ELSE 0

RECURSIVE RemoveCidFrom(_, _)
RemoveCidFrom(s, i) ==
  IF i > Len(s) THEN <<>>
  ELSE IF CidTokenEnd(s, i) # 0
       THEN RemoveCidFrom(s, CidTokenEnd(s, i))
       ELSE <<s[i]>> \o RemoveCidFrom(s, i + 1)

\* re.sub(r'\(cid:\d+\)', '', s): one left-to-right pass
RemoveCidTokens(s) == RemoveCidFrom(s, 1)

\* re.search(r'\(cid:\d+\)', s) is not None
HasCidToken(s) == \E i \in 1..Len(s) : CidTokenEnd(s, i) # 0

(***************************************************************************)
(* The glyph tables, in the dict's iteration order (a repeated key keeps   *)
(* its first position and its last value).                                 *)
(***************************************************************************)
cid_map ==
  <<
     <<Cid(<<"1", "4", "7">>), <<"ka">>>>,
     <<Cid(<<"1", "3", "0">>), <<"+aa">>>>,
     <<Cid(<<"1", "5", "4">>), <<"ra">>>>,
     <<Cid(<<"3">>), <<" ">>>>,
     <<Cid(<<"1", "5", "2">>), <<"ma">>>>,
     <<Cid(<<"1", "5", "7">>), <<"na">>>>,
     <<Cid(<<"5", "4", "5">>), <<"+aa">>>>,
     <<Cid(<<"9", "1">>), <<"+ii">>>>,
     <<Cid(<<"1", "3", "3">>), <<"va">>>>,
     <<Cid(<<"1", "2", "8">>), <<"ta">>>>,
     <<Cid(<<"1", "5", "5">>), <<"la">>>>,
     <<Cid(<<"5", "4", "7">>), <<"ya">>>>,
     <<Cid(<<"1", "5">>), <<"-">>>>,
     <<Cid(<<"2", "0">>), <<"d2">>>>,
     <<Cid(<<"1", "8">>), <<"d0">>>>,
     <<Cid(<<"2", "1">>), <<"d3">>>>,
     <<Cid(<<"1", "0">>), <<"(">>>>,
     <<Cid(<<"1", "1">>), <<")">>>>,
     <<Cid(<<"1", "4", "8">>), <<"pa">>>>,
     <<Cid(<<"4", "7", "1">>), <<"+uu">>>>,
     <<Cid(<<"4", "6", "8">>), <<"ja">>>>,
     <<Cid(<<"1", "5", "9">>), <<"sha">>>>,
     <<Cid(<<"2", "1", "9">>), <<"+anusvara">>>>,
     <<Cid(<<"2", "8", "9">>), <<"na">>>>,
     <<Cid(<<"1", "6", "0">>), <<"sa">>>>,
     <<Cid(<<"2", "0", "1">>), <<"kha">>>>,
     <<Cid(<<"2", "3", "2">>), <<"sa">>>>,
     <<Cid(<<"2", "7", "2">>), <<"sha">>>>,
     <<Cid(<<"2", "3", "0">>), <<"ca">>>>,
     <<Cid(<<"1", "6", "2">>), <<"ka">>>>,
     <<Cid(<<"9", "2">>), <<"vA">>>>,
     <<Cid(<<"9", "3">>), <<"vAA">>>>,
     <<Cid(<<"9", "4">>), <<"vI">>>>,
     <<Cid(<<"9", "5">>), <<"vII">>>>,
     <<Cid(<<"9", "6">>), <<"vU">>>>,
     <<Cid(<<"1", "3", "5">>), <<"vUU">>>>,
     <<Cid(<<"1", "3", "6">>), <<"vocalicr">>>>,
     <<Cid(<<"1", "3", "9">>), <<"ttha">>>>,
     <<Cid(<<"1", "4", "4">>), <<"tha">>>>,
     <<Cid(<<"1", "4", "5">>), <<"da">>>>,
     <<Cid(<<"1", "4", "6">>), <<"dha">>>>,
     <<Cid(<<"1", "5", "0">>), <<"ba">>>>,
     <<Cid(<<"1", "5", "3">>), <<"la">>>>,
     <<Cid(<<"1", "5", "8">>), <<"va">>>>,
     <<Cid(<<"1", "6", "1">>), <<"ha">>>>,
     <<Cid(<<"2", "0", "0">>), <<"ka", "+virama", "ssa">>>>,
     <<Cid(<<"2", "0", "2">>), <<"cha">>>>,
     <<Cid(<<"2", "1", "5">>), <<"ta">>>>,
     <<Cid(<<"2", "2", "0">>), <<"pa">>>>,
     <<Cid(<<"2", "2", "2">>), <<"ba">>>>,
     <<Cid(<<"2", "2", "4">>), <<"ma">>>>,
     <<Cid(<<"2", "2", "7">>), <<"la">>>>,
     <<Cid(<<"2", "2", "9">>), <<"sha", "+virama">>>>,
     <<Cid(<<"2", "3", "1">>), <<"ssa">>>>,
     <<Cid(<<"2", "3", "4">>), <<"ka">>>>,
     <<Cid(<<"2", "8", "2">>), <<"tta">>>>,
     <<Cid(<<"2", "8", "7">>), <<"ya">>>>,
     <<Cid(<<"2", "9", "2">>), <<"pa", "+virama", "ra">>>>,
     <<Cid(<<"2", "9", "4">>), <<"ba", "+virama", "ra">>>>,
     <<Cid(<<"3", "0", "2">>), <<"tta">>>>,
     <<Cid(<<"4", "1", "9">>), <<"na">>>>,
     <<Cid(<<"4", "6", "4">>), <<"ra">>>>,
     <<Cid(<<"4", "6", "7">>), <<"na">>>>,
     <<Cid(<<"4", "6", "9">>), <<"+u">>>>,
     <<Cid(<<"5", "0", "9">>), <<"na", "+i">>>>,
     <<Cid(<<"5", "1", "0">>), <<"ba", "+i">>>>,
     <<Cid(<<"5", "1", "1">>), <<"da", "+i">>>>,
     <<Cid(<<"5", "4", "6">>), <<"ya">>>>,
     <<Cid(<<"5", "5", "4">>), <<"ha">>>>,
     <<Cid(<<"5", "5", "9">>), <<"+e">>>>,
     <<Cid(<<"5", "6", "0">>), <<"ha", "+ai">>>>,
     <<Cid(<<"5", "6", "6">>), <<"ra", "+virama", "va">>>>,
     <<Cid(<<"5", "8", "1">>), <<"+e", "+anusvara">>>>,
     <<Cid(<<"5", "9", "1">>), <<"na", "+virama">>>>,
     <<Cid(<<"6", "2", "2">>), <<"sha">>>>,
     <<Cid(<<"6", "6", "8">>), <<"+aa">>>>,
     <<Cid(<<"8", "7", "1">>), <<"sa", "+i">>>>,
     <<Cid(<<"8", "7", "3">>), <<"sha", "+virama">>>>,
     <<Cid(<<"8", "7", "4">>), <<"vU">>>>,
     <<Cid(<<"8", "7", "6">>), <<"dha">>>>
  >>

broken_char_fixes ==
  <<
     <<<<"+aa", "+u">>, <<"+aa", "+u">>>>,
     <<<<"+aa", " ", "+u">>, <<"+aa", "+u">>>>,
     <<<<"ka", " ", "+aa">>, <<"ka", "+aa">>>>,
     <<<<"ra", " ", "+aa">>, <<"ra", "+aa">>>>,
     <<<<"ma", " ", "+aa">>, <<"ma", "+aa">>>>,
     <<<<"na", " ", "+aa">>, <<"na", "+aa">>>>,
     <<<<"ta", " ", "+aa">>, <<"ta", "+aa">>>>,
     <<<<"sa", " ", "+aa">>, <<"sa", "+aa">>>>,
     <<<<"la", " ", "+aa">>, <<"la", "+aa">>>>,
     <<<<"pa", " ", "+aa">>, <<"pa", "+aa">>>>,
     <<<<"da", " ", "+aa">>, <<"da", "+aa">>>>,
     <<<<"ba", " ", "+aa">>, <<"ba", "+aa">>>>,
     <<<<"ga", " ", "+aa">>, <<"ga", "+aa">>>>,
     <<<<"ja", " ", "+aa">>, <<"ja", "+aa">>>>,
     <<<<"ca", " ", "+aa">>, <<"ca", "+aa">>>>,
     <<<<"va", " ", "+aa">>, <<"va", "+aa">>>>,
     <<<<"sha", " ", "+aa">>, <<"sha", "+aa">>>>,
     <<<<"ha", " ", "+aa">>, <<"ha", "+aa">>>>,
     <<<<"ya", " ", "+aa">>, <<"ya", "+aa">>>>,
     <<<<"ka", " ", "+aa", "+u">>, <<"ka", "+aa", "+u">>>>,
     <<<<"ra", " ", "+aa", "ja">>, <<"ra", "+aa", "ja">>>>,
     <<<<"ma", " ", "+aa", "ra">>, <<"ma", "+aa", "ra">>>>,
     <<<<"na", " ", "+aa", "ma">>, <<"na", "+aa", "ma">>>>,
     <<<<"ka", "+aa", "+u">>, <<"ka", "+aa", "+u">>>>,
     <<<<"ra", "+aa", "ja", "ka", "+aa", "+u", "ma", "+aa", "ra">>, <<"ra", "+aa", "ja", "ka", "+u", "ma", "+aa", "ra">>>>,
     <<<<"ra", "+aa", "ja", "ka", " ", "+aa", "+u", "ma", "+aa", "ra">>, <<"ra", "+aa", "ja", "ka", "+u", "ma", "+aa", "ra">>>>,
     <<<<"ca", "ya", "+aa", "ma">>, <<"sha", "+virama", "ya", "+aa", "ma">>>>,
     <<<<"pa", "+virama", "ra", "ka", " ", "+aa", "+aa">>, <<"pa", "+virama", "ra", "ka", "+aa", "sha">>>>,
     <<<<"pa", "+virama", "ra", "ka", "+aa", "+aa", "sha">>, <<"pa", "+virama", "ra", "ka", "+aa", "sha">>>>,
     <<<<"ja", "ya", "pa", "+virama", "ra", "ka", " ", "+aa", "+aa">>, <<"ja", "ya", "pa", "+virama", "ra", "ka", "+aa", "sha">>>>,
     <<<<"ja", "ya", "pa", "+virama", "ra", "ka", "+aa", "+aa", "sha">>, <<"ja", "ya", "pa", "+virama", "ra", "ka", "+aa", "sha">>>>,
     <<<<"ma", "ka", " ", "+aa">>, <<"ma", "ka", "+aa">>>>,
     <<<<"ka", "vU", "na">>, <<"ka", "+u", "na">>>>,
     <<<<"ka", "+u", "na", "ta", "+aa">>, <<"ka", "+u", "na", "+virama", "ta", "+aa">>>>,
     <<<<"ba", "+aa", "ga", "+uu">>, <<"ba", "+aa", "ba", "+uu">>>>,
     <<<<"ka", "sha", "ca", "ca", "ya", "na">>, <<"ka", "+vocalicr", "ssa", "+virama", "nna", "+aa">>>>,
     <<<<"ka", "sha", "ja", "ca", "ca", "ya", "na">>, <<"ka", "+vocalicr", "ssa", "+virama", "nna", "+aa">>>>,
     <<<<"ttha", "+aa", "ka", " ", "+aa", "+u", "ra">>, <<"ttha", "+aa", "ka", "+u", "ra">>>>,
     <<<<"ttha", "+aa", "ka", "+aa", "+u", "ra">>, <<"ttha", "+aa", "ka", "+u", "ra">>>>,
     <<<<"ma", "+u", "ka", " ", "+aa", "+u", "la">>, <<"ma", "+u", "ka", "+u", "la">>>>,
     <<<<"ma", "+u", "ka", "+aa", "+u", "la">>, <<"ma", "+u", "ka", "+u", "la">>>>,
     <<<<"na", "+e", "da", "pa", "+virama", "ra", "ka", "+aa", "sha">>, <<"na", "+e", "da", "pa", "+virama", "ra", "ka", "+aa", "sha">>>>,
     <<<<"va", "+i", "na", "+i", "ta">>, <<"va", "+i", "na", "+ii", "ta">>>>,
     <<<<"sa", "+i", "sa", "+anusvara">>, <<"sa", "+i", "+anusvara", "ha">>>>,
     <<<<"sa", "+i", "la", "+anusvara">>, <<"sa", "+i", "+anusvara", "ha">>>>,
     <<<<"na", "na">>, <<"na", "+i">>>>,
     <<<<"sa", "+i">>, <<"sa", "+i">>>>,
     <<<<"sha", " ", "+virama", "ya", "+aa", "ma">>, <<"sha", "+virama", "ya", "+aa", "ma">>>>,
     <<<<"ga", " ", "+i", "ta", "+aa">>, <<"ga", "+ii", "ta", "+aa">>>>
  >>

cid_replacements ==
  <<
     <<Cid(<<"1", "4", "7">>), <<"ka">>>>,
     <<Cid(<<"1", "3", "0">>), <<"+aa">>>>,
     <<Cid(<<"1", "5", "4">>), <<"ra">>>>,
     <<Cid(<<"3">>), <<>>>>,
     <<Cid(<<"1", "5", "2">>), <<"ma">>>>,
     <<Cid(<<"1", "5", "7">>), <<"na">>>>,
     <<Cid(<<"5", "4", "5">>), <<"+aa">>>>,
     <<Cid(<<"9", "1">>), <<"+ii">>>>,
     <<Cid(<<"1", "3", "3">>), <<"va">>>>,
     <<Cid(<<"1", "2", "8">>), <<"ta">>>>,
     <<Cid(<<"1", "5", "5">>), <<"la">>>>,
     <<Cid(<<"5", "4", "7">>), <<"ya">>>>,
     <<Cid(<<"1", "5">>), <<"-">>>>,
     <<Cid(<<"2", "0">>), <<"d2">>>>,
     <<Cid(<<"1", "8">>), <<"d0">>>>,
     <<Cid(<<"2", "1">>), <<"d3">>>>,
     <<Cid(<<"1", "0">>), <<"(">>>>,
     <<Cid(<<"1", "1">>), <<")">>>>,
     <<Cid(<<"1", "4", "8">>), <<"pa">>>>,
     <<Cid(<<"4", "7", "1">>), <<"+uu">>>>,
     <<Cid(<<"1", "6", "0">>), <<"sa">>>>,
     <<Cid(<<"4", "6", "8">>), <<"ja">>>>,
     <<Cid(<<"4", "6", "7">>), <<"na">>>>,
     <<Cid(<<"2", "1", "9">>), <<"+anusvara">>>>,
     <<Cid(<<"2", "8", "9">>), <<"da">>>>,
     <<Cid(<<"2", "3", "2">>), <<"sa">>>>,
     <<Cid(<<"1", "4", "4">>), <<"tha">>>>,
     <<Cid(<<"2", "0", "1">>), <<"kha">>>>,
     <<Cid(<<"1", "5", "3">>), <<"la">>>>,
     <<Cid(<<"2", "2", "4">>), <<"ma">>>>,
     <<Cid(<<"5", "5", "4">>), <<"ha">>>>,
     <<Cid(<<"1", "6", "1">>), <<"ha">>>>,
     <<Cid(<<"2", "2", "7">>), <<"la">>>>,
     <<Cid(<<"5", "5", "9">>), <<"+e">>>>,
     <<Cid(<<"5", "8", "1">>), <<"+e", "+anusvara">>>>,
     <<Cid(<<"9", "5">>), <<"vII">>>>,
     <<Cid(<<"2", "9", "2">>), <<"pa">>>>,
     <<Cid(<<"2", "7", "2">>), <<"sha">>>>,
     <<Cid(<<"9", "6">>), <<"+i">>>>,
     <<Cid(<<"2", "2", "2">>), <<"ba">>>>,
     <<Cid(<<"1", "4", "6">>), <<"dha">>>>,
     <<Cid(<<"5", "6", "0">>), <<"ha", "+ai">>>>,
     <<Cid(<<"9", "2">>), <<"vA">>>>,
     <<Cid(<<"8", "7", "6">>), <<"dha">>>>,
     <<Cid(<<"2", "8", "2">>), <<"tta">>>>,
     <<Cid(<<"2", "3", "0">>), <<"ca">>>>,
     <<Cid(<<"3", "0", "2">>), <<"tta">>>>,
     <<Cid(<<"9", "3">>), <<"vAA">>>>,
     <<Cid(<<"9", "4">>), <<"vI">>>>,
     <<Cid(<<"1", "3", "5">>), <<"vU">>>>,
     <<Cid(<<"1", "3", "6">>), <<"vUU">>>>,
     <<Cid(<<"8", "7", "1">>), <<"sa", "+i">>>>,
     <<Cid(<<"6", "6", "8">>), <<"ka">>>>,
     <<Cid(<<"5", "1", "0">>), <<"ba", "+i">>>>,
     <<Cid(<<"5", "1", "1">>), <<"da", "+i">>>>,
     <<Cid(<<"5", "0", "9">>), <<"na", "+i">>>>,
     <<Cid(<<"6", "2", "2">>), <<"sha">>>>,
     <<Cid(<<"2", "1", "5">>), <<"ta">>>>,
     <<Cid(<<"4", "1", "9">>), <<"na">>>>,
     <<Cid(<<"2", "0", "2">>), <<"cha">>>>,
     <<Cid(<<"2", "3", "1">>), <<"ssa">>>>,
     <<Cid(<<"2", "3", "4">>), <<"ka">>>>,
     <<Cid(<<"1", "3", "9">>), <<"ttha">>>>,
     <<Cid(<<"1", "5", "9">>), <<"bha">>>>,
     <<Cid(<<"2", "0", "0">>), <<"ka", "+virama", "ssa">>>>,
     <<Cid(<<"5", "6", "6">>), <<"ra", "+virama", "va">>>>,
     <<Cid(<<"5", "9", "1">>), <<"na", "+virama">>>>,
     <<Cid(<<"2", "8", "7">>), <<"ya">>>>,
     <<Cid(<<"2", "2", "0">>), <<"pa", "+virama", "ra">>>>
  >>

(***************************************************************************)
(* Glyph repair.                                                           *)
(***************************************************************************)
\* FinalVoterDataProcessor.clean_cid_text
clean_cid_text(text) ==
  IF text = <<>> THEN <<>>
  ELSE LET mapped == ReplaceEach(text, cid_map)
           nocid  == RemoveCidTokens(mapped)
           fixed  == ReplaceEach(nocid, broken_char_fixes)
       IN Strip(CollapseSpaces(fixed))

\* VoterDataProcessor.clean_cid_text
pdf_clean_cid_text(text) ==
  IF text = <<>> THEN <<>>
  ELSE LET mapped == ReplaceEach(text, cid_replacements)
           nocid  == RemoveCidTokens(mapped)
       IN Strip(CollapseSpaces(nocid))

(***************************************************************************)
(* More string operations.                                                 *)
(***************************************************************************)
AsciiLetters ==
  { "a", "b", "c", "d", "e", "f", "g", "h", "i", "j", "k", "l", "m",
    "n", "o", "p", "q", "r", "s", "t", "u", "v", "w", "x", "y", "z",
    "A", "B", "C", "D", "E", "F", "G", "H", "I", "J", "K", "L", "M",
    "N", "O", "P", "Q", "R", "S", "T", "U", "V", "W", "X", "Y", "Z" }

AsciiOther == {" ", "\n", "\t", "(", ")", ":", "-", "/", ".", "~", "^", "'", "\\", "_"}

\* a code point of the Devanagari block, [ऀ-ॿ]: every character of
\* the model that is not ASCII
IsDevanagari(c) == c \notin (AsciiLetters \cup AsciiDigits \cup AsciiOther \cup {NINES})

Min(S) == CHOOSE x \in S : \A y \in S : x <= y

Max(S) == CHOOSE x \in S : \A y \in S : x >= y

\* the first index >= i that holds a space, Len(s) + 1 if none
NextSpace(s, i) ==
  LET S == {j \in i..Len(s) : IsSpace(s[j])} IN IF S = {} THEN Len(s) + 1 ELSE Min(S)

\* the first index >= i that holds no space, Len(s) + 1 if none
NextNonSpace(s, i) ==
  LET S == {j \in i..Len(s) : ~IsSpace(s[j])} IN IF S = {} THEN Len(s) + 1 ELSE Min(S)

\* the first index >= i that holds a digit, Len(s) + 1 if none
NextDigit(s, i) ==
  LET S == {j \in i..Len(s) : IsDigit(s[j])} IN IF S = {} THEN Len(s) + 1 ELSE Min(S)

RECURSIVE SplitFrom(_, _)
SplitFrom(s, i) ==
  LET b == NextNonSpace(s, i)
      e == NextSpace(s, b)
  IN IF b > Len(s) THEN <<>> ELSE <<SubSeq(s, b, e - 1)>> \o SplitFrom(s, e)

\* s.split()
Split(s) == SplitFrom(s, 1)

RECURSIVE Join(_)
\* ' '.join(words)
Join(words) ==
  IF words = <<>> THEN <<>>
  ELSE IF Len(words) = 1 THEN words[1]
  ELSE words[1] \o <<" ">> \o Join(Tail(words))

\* int(s) for a string of decimal digits
DigitValue(c) ==
  CASE c \in {"0", "d0"} -> 0 [] c \in {"1", "d1"} -> 1 [] c \in {"2", "d2"} -> 2
    [] c \in {"3", "d3"} -> 3 [] c \in {"4", "d4"} -> 4 [] c \in {"5", "d5"} -> 5
    [] c \in {"6", "d6"} -> 6 [] c \in {"7", "d7"} -> 7 [] c \in {"8", "d8"} -> 8
    [] c \in {"9", "d9"} -> 9

RECURSIVE PyInt(_)
PyInt(s) ==
  IF s = <<>> THEN 0 ELSE 10 * PyInt(SubSeq(s, 1, Len(s) - 1)) + DigitValue(s[Len(s)])

(***************************************************************************)
(* Record segmentation (FinalVoterDataProcessor.extract_voters_from_line). *)
(***************************************************************************)
PU     == <<"pa", "+u">>
MA     == <<"ma">>
STRI   == <<"sa", "+virama", "ta", "+virama", "ra", "+ii">>
PURUSH == <<"pa", "+u", "ra", "+u", "ssa">>
PHA    == <<"pha">>
MAHILA == <<"ma", "ha", "+i", "la", "+aa">>

\* the alternation (पु|म|स्त्री|पुरुष|फ) of voter_pattern
GenderMarkers == {PU, MA, STRI, PURUSH, PHA}

NoMatch == [found |-> FALSE]

\* (\d{1,3})(?=\s|$|\d) tried at d: the index after the age, 0 when it fails.
\* Up to three digits are taken; a digit is given back while the look-ahead
\* finds neither a space, the end nor a digit.
AgeEnd(s, d) ==
  LET run == DigitRunEnd(s, d) - d
  IN IF run = 0 THEN 0
     ELSE IF run > 3 THEN d + 3
     ELSE IF d + run > Len(s) \/ IsSpace(s[d + run]) THEN d + run
     ELSE IF run >= 2 THEN d + run - 1
     ELSE 0

\* voter_pattern tried at index i of a line whose words are separated by
\* single spaces (the line is the result of clean_cid_text):
\*   (\d+)(?:[०-९]*)?\s+([^\d]+?)\s+(पु|म|स्त्री|पुरुष|फ)\s+(\d{1,3})(?=\s|$|\d)
\* The serial is the run of digits at i, which a space must follow.  Group 2
\* holds no digit, and the marker is followed by a space and the age, so the
\* marker is the last word before the next digit, and group 2 is all the words
\* before it (at least one).
MatchAt(s, i) ==
  IF i > Len(s) \/ ~IsDigit(s[i]) THEN NoMatch
  ELSE LET e1 == DigitRunEnd(s, i)           \* after the serial
           q  == e1 + 1                      \* start of group 2
           d  == NextDigit(s, q)             \* start of the age
       IN IF e1 > Len(s) \/ ~IsSpace(s[e1]) THEN NoMatch
          ELSE IF d > Len(s) \/ d - 1 <= q \/ ~IsSpace(s[d - 1]) THEN NoMatch
          ELSE LET spaces == {j \in q..(d - 2) : IsSpace(s[j])}
               IN IF spaces = {} THEN NoMatch
                  ELSE LET sp     == Max(spaces)  \* the space before the marker
                           marker == SubSeq(s, sp + 1, d - 2)
                           a      == AgeEnd(s, d)
                       IN IF sp <= q \/ marker \notin GenderMarkers \/ a = 0
                          THEN NoMatch
                          ELSE [found       |-> TRUE,
                                sr_no       |-> SubSeq(s, i, e1 - 1),
                                middle_text |-> SubSeq(s, q, sp - 1),
                                gender      |-> marker,
                                age_str     |-> SubSeq(s, d, a - 1),
                                end         |-> a]

\* a scan that gives up after the first match
NextMatchOnce(s, pos) ==
  LET starts == {i \in pos..Len(s) : MatchAt(s, i).found}
  IN IF starts = {} \/ pos > 1 THEN NoMatch ELSE MatchAt(s, Min(starts))

\* re.finditer(voter_pattern, line): the next match at or after pos
NextMatch(s, pos) ==
  LET starts == {i \in pos..Len(s) : MatchAt(s, i).found}
  IN IF starts = {} THEN NoMatch ELSE MatchAt(s, Min(starts))

(***************************************************************************)
(* Name cleaning and name splitting                                        *)
(* (FinalVoterDataProcessor.parse_middle_text and its helpers).            *)
(***************************************************************************)
NameChar(c) == IsDevanagari(c) \/ IsSpace(c)

\* re.sub(r'[^\u0900-\u097F\s]', ' ', s): a character outside the class becomes a space
KeepNameChars(s) == [k \in 1..Len(s) |-> IF NameChar(s[k]) THEN s[k] ELSE " "]

\* non_name_words of clean_and_validate_name
non_name_words ==
  { <<"pa", "+u", "ta", "+virama", "ra">>,
    <<"pa", "ta", "+virama", "na", "+ii">>,
    <<"pa", "ta", "+i">>,
    <<"sa", "/", "+o">>,
    <<"dda", "ba", "+virama", "la", "+virama", "ya", "+uu", "/", "vO">>,
    <<"pa", "+i", "ta", "+aa">>,
    <<"ka", "+aa">>,
    <<"ka", "+ii">>,
    <<"ka", "+e">> }

\* FinalVoterDataProcessor.clean_and_validate_name
clean_and_validate_name(name) ==
  IF name = <<>> THEN <<>>
  ELSE LET kept  == Strip(CollapseSpaces(KeepNameChars(name)))
           words == Split(kept)
       IN Strip(Join(SelectSeq(words, LAMBDA w : w \notin non_name_words)))

HouseChar(c) == c \in AsciiLetters \/ c \in AsciiDigits \cup {NINES} \/ IsDevanagari(c)

\* FinalVoterDataProcessor.clean_house_number
clean_house_number(house_no) ==
  IF house_no = <<>> THEN <<>> ELSE Strip(SelectSeq(house_no, HouseChar))

\* the address patterns that re.match anchors at the start of the word
AddressPrefixes ==
  { <<"vE", "ca", "/">>, <<"vE", "/">>, <<"ba", "+ii", "/">>, <<"sa", "+ii", "/">>,
    <<"dda", "+ii", "/">>, <<"sa", "-">>, <<"vE", "0", "1">>, <<"ba", "+i">> }

\* the address patterns that end in $: the whole word
AddressWords ==
  { <<"ka", "+vocalicr", "ssa", "+virama", "nna", "+aa">>, <<"na", "ga", "ra">> }

\* any(re.match(pattern, word) for pattern in address_patterns)
is_address(word) ==
  \/ \A k \in 1..Len(word) : IsDigit(word[k])
  \/ IsDigit(word[1])
  \/ (Len(word) >= 2 /\ word[1] \in AsciiLetters /\ IsDigit(word[2]))
  \/ \E p \in AddressPrefixes : StartsAt(word, p, 1)
  \/ word \in AddressWords

\* the characters of 'ABCDEFGHabcdefghएबीसीडीएफजीएच'
ShortAddressChars ==
  { "A", "B", "C", "D", "E", "F", "G", "H", "a", "b", "c", "d", "e", "f", "g", "h",
    "vE", "ba", "+ii", "sa", "dda", "pha", "ja", "ca" }

is_short_alphanum(word) ==
  /\ Len(word) <= 4
  /\ \E k \in 1..Len(word) : IsDigit(word[k]) \/ word[k] \in ShortAddressChars

\* the number of leading words that look like address components (name_start_idx)
name_start_idx(words) ==
  LET stops == {i \in 1..Len(words) : ~(is_address(words[i]) \/ is_short_alphanum(words[i]))}
  IN IF stops = {} THEN Len(words) ELSE Min(stops) - 1

\* <<address_words, name_words>> of parse_middle_text
AddressAndNames(words) ==
  LET n     == name_start_idx(words)
      addr  == SubSeq(words, 1, n)
      names == SubSeq(words, n + 1, Len(words))
  IN IF Len(names) = 0 THEN <<(<<>>), words>>
     ELSE IF Len(names) = 1 /\ Len(addr) > 2
          THEN <<SubSeq(words, 1, Len(words) - 2), SubSeq(words, Len(words) - 1, Len(words))>>
     ELSE <<addr, names>>

SINGH   == <<"sa", "+i", "+anusvara", "ha">>
SISANGH == <<"sa", "+i", "sa", "+anusvara", "ha">>
KUMAR   == <<"ka", "+u", "ma", "+aa", "ra">>
PRASAD  == <<"pa", "+virama", "ra", "sa", "+aa", "da">>
LAL     == <<"la", "+aa", "la">>
CHAND   == <<"ca", "+anusvara", "da">>
DEV     == <<"da", "+e", "va">>
RAM     == <<"ra", "+aa", "ma">>
SHARMA  == <<"sha", "ra", "+virama", "ma", "+aa">>
GUPTA   == <<"ga", "+u", "pa", "+virama", "ta", "+aa">>

father_indicators == {SISANGH, SINGH, KUMAR, PRASAD, LAL, CHAND, DEV, RAM, SHARMA, GUPTA}

\* any(indicator in word for indicator in father_indicators)
HasIndicator(word) == \E ind \in father_indicators : Contains(word, ind)

\* a scan that starts at the first word
FirstScannedAtFirstWord == 2 - 1

\* a default split after the first word, whatever the length
DefaultSplitAfterFirst(n) == 1

\* the first index the loop 'for i in range(1, len(name_words))' looks at,
\* as a 1-based position: the second word
FirstScanned == 2

\* split_point = len(name_words) // 2
DefaultSplit(n) == n \div 2

\* split_point of parse_middle_text for three or more words: the number of
\* words that go to the voter name
split_point(name_words) ==
  LET hits == {i \in FirstScanned..Len(name_words) : HasIndicator(name_words[i])}
  IN IF hits = {} THEN DefaultSplit(Len(name_words)) ELSE Min(hits) - 1

\* <<voter words, father words>> of parse_middle_text ("Split names intelligently")
NameSplit(name_words) ==
  IF Len(name_words) = 1 THEN <<name_words, <<>>>>
  ELSE IF Len(name_words) = 2 THEN <<SubSeq(name_words, 1, 1), SubSeq(name_words, 2, 2)>>
  ELSE LET sp == split_point(name_words)
       IN <<SubSeq(name_words, 1, sp), SubSeq(name_words, sp + 1, Len(name_words))>>

\* FinalVoterDataProcessor.split_names: <<voter words, father words>>
split_names(name_words) ==
  IF name_words = <<>> THEN <<(<<>>), <<>>>>
  ELSE IF Len(name_words) = 1 THEN <<name_words, <<>>>>
  ELSE IF Len(name_words) = 2 THEN <<SubSeq(name_words, 1, 1), SubSeq(name_words, 2, 2)>>
  ELSE IF Len(name_words) = 3 THEN <<SubSeq(name_words, 1, 1), SubSeq(name_words, 2, 3)>>
  ELSE IF Len(name_words) = 4 THEN <<SubSeq(name_words, 1, 2), SubSeq(name_words, 3, 4)>>
  ELSE LET mid == Len(name_words) \div 2
       IN <<SubSeq(name_words, 1, mid), SubSeq(name_words, mid + 1, Len(name_words))>>

(***************************************************************************)
(* Transliteration (FinalVoterDataProcessor.transliterate_name).           *)
(***************************************************************************)
LowerCase == <<"a", "b", "c", "d", "e", "f", "g", "h", "i", "j", "k", "l", "m",
               "n", "o", "p", "q", "r", "s", "t", "u", "v", "w", "x", "y", "z">>

UpperCase == <<"A", "B", "C", "D", "E", "F", "G", "H", "I", "J", "K", "L", "M",
               "N", "O", "P", "Q", "R", "S", "T", "U", "V", "W", "X", "Y", "Z">>

Lower(c) ==
  IF \E k \in 1..26 : UpperCase[k] = c
  THEN LowerCase[CHOOSE k \in 1..26 : UpperCase[k] = c] ELSE c

Upper(c) ==
  IF \E k \in 1..26 : LowerCase[k] = c
  THEN UpperCase[CHOOSE k \in 1..26 : LowerCase[k] = c] ELSE c

\* s.lower()
LowerStr(s) == [k \in 1..Len(s) |-> Lower(s[k])]

\* s.title(): a letter that follows no letter is upper-cased, any other lower-cased
Title(s) ==
  [k \in 1..Len(s) |->
     IF s[k] \notin AsciiLetters THEN s[k]
     ELSE IF k = 1 \/ s[k - 1] \notin AsciiLetters THEN Upper(s[k]) ELSE Lower(s[k])]

\* the combining signs of the Devanagari block: not word characters for \b
DevanagariSigns ==
  { "+inverted candrabindu", "+candrabindu", "+anusvara", "+visarga", "+oe",
    "+ooe", "+nukta", "+aa", "+i", "+ii", "+u", "+uu", "+vocalicr",
    "+vocalicrr", "+candrae", "+shorte", "+e", "+ai", "+candrao", "+shorto",
    "+o", "+au", "+virama", "+prishthamatrae", "+aw", "+candralonge", "+ue",
    "+uue", "+vocalicl", "+vocalicll" }

\* \w
IsWordChar(c) ==
  \/ c \in AsciiLetters \/ c \in AsciiDigits \cup {NINES} \/ c = "_"
  \/ (IsDevanagari(c) /\ c \notin DevanagariSigns)

\* \b between index i - 1 and index i
Boundary(s, i) ==
  LET before == i > 1 /\ i - 1 <= Len(s) /\ IsWordChar(s[i - 1])
      after  == i >= 1 /\ i <= Len(s) /\ IsWordChar(s[i])
  IN before # after

\* name_mapping of _transliterate_with_indic_nlp
name_mapping ==
  <<
  <<<<"ra", "+aa", "ma">>, <<"R", "a", "m">>>>,
  <<<<"sha", "+virama", "ya", "+aa", "ma">>, <<"S", "h", "y", "a", "m">>>>,
  <<<<"ma", "+o", "ha", "na">>, <<"M", "o", "h", "a", "n">>>>,
  <<<<"sa", "+o", "ha", "na">>, <<"S", "o", "h", "a", "n">>>>,
  <<<<"ga", "+ii", "ta", "+aa">>, <<"G", "e", "e", "t", "a">>>>,
  <<<<"sa", "+ii", "ta", "+aa">>, <<"S", "i", "t", "a">>>>,
  <<<<"ra", "+aa", "dha", "+aa">>, <<"R", "a", "d", "h", "a">>>>,
  <<<<"ka", "+vocalicr", "ssa", "+virama", "nna">>, <<"K", "r", "i", "s", "h", "n", "a">>>>,
  <<<<"ga", "+o", "pa", "+aa", "la">>, <<"G", "o", "p", "a", "l">>>>,
  <<<<"ha", "ra", "+i">>, <<"H", "a", "r", "i">>>>,
  <<<<"da", "+e", "va">>, <<"D", "e", "v">>>>,
  <<<<"pa", "+virama", "ra", "ka", "+aa", "sha">>, <<"P", "r", "a", "k", "a", "s", "h">>>>,
  <<<<"va", "+i", "ka", "+aa", "sa">>, <<"V", "i", "k", "a", "s">>>>,
  <<<<"vA", "ma", "+i", "ta">>, <<"A", "m", "i", "t">>>>,
  <<<<"sa", "+u", "ma", "+i", "ta">>, <<"S", "u", "m", "i", "t">>>>,
  <<<<"ra", "+aa", "ja">>, <<"R", "a", "j">>>>,
  <<<<"va", "+i", "ja", "ya">>, <<"V", "i", "j", "a", "y">>>>,
  <<<<"vA", "ja", "ya">>, <<"A", "j", "a", "y">>>>,
  <<<<"sa", "+anusvara", "ja", "ya">>, <<"S", "a", "n", "j", "a", "y">>>>
  >>

\* name_patterns of transliterate_name
name_patterns ==
  <<
  <<<<"d", "h", "a", "n", "a", "n", "a", "t", "i">>, <<"d", "h", "a", "n", "a", "n", "t", "i">>>>,
  <<<<"p", "r", "a", "k", "a", "s", "h", "a">>, <<"p", "r", "a", "k", "a", "s", "h">>>>,
  <<<<"r", "a", "j", "e", "s", "h", "a">>, <<"r", "a", "j", "e", "s", "h">>>>,
  <<<<"m", "a", "h", "e", "s", "h", "a">>, <<"m", "a", "h", "e", "s", "h">>>>,
  <<<<"v", "i", "j", "a", "y", "a">>, <<"v", "i", "j", "a", "y">>>>,
  <<<<"k", "u", "m", "a", "r", "a">>, <<"k", "u", "m", "a", "r">>>>,
  <<<<"r", "a", "m", "a">>, <<"r", "a", "m">>>>,
  <<<<"s", "i", "m", "h", "a">>, <<"s", "i", "n", "g", "h">>>>,
  <<<<"s", "u", "n", "i", "t", "a">>, <<"s", "u", "n", "i", "t", "a">>>>,
  <<<<"s", "a", "r", "i", "t", "a">>, <<"s", "a", "r", "i", "t", "a">>>>,
  <<<<"k", "a", "m", "a", "l", "a">>, <<"k", "a", "m", "a", "l", "a">>>>,
  <<<<"s", "h", "a", "r", "m", "a">>, <<"s", "h", "a", "r", "m", "a">>>>,
  <<<<"g", "u", "p", "t", "a">>, <<"g", "u", "p", "t", "a">>>>,
  <<<<"a", "n", "i", "t", "a">>, <<"a", "n", "i", "t", "a">>>>
  >>

\* the entries of replacements that str.replace applies
replacements ==
  <<
  <<<<"a", "a">>, <<"a">>>>,
  <<<<"i", "i">>, <<"i">>>>,
  <<<<"u", "u">>, <<"u">>>>,
  <<<<"e", "e">>, <<"e">>>>,
  <<<<"o", "o">>, <<"o">>>>,
  <<<<"~", "n">>, <<"n">>>>,
  <<<<"'">>, <<>>>>,
  <<<<"\\", ".", "h">>, <<"h">>>>,
  <<<<"\\", ".", "n">>, <<"n">>>>,
  <<<<"\\", ".", "m">>, <<"m">>>>,
  <<<<"\\", ".", "t">>, <<"t">>>>,
  <<<<"\\", ".", "d">>, <<"d">>>>,
  <<<<"c", "h", "h">>, <<"c", "h", "h">>>>,
  <<<<"~">>, <<>>>>
  >>

\* the entries of replacements that end in $ (re.sub at the end of the string)
ending_replacements ==
  <<
  <<<<"a", "s", "h", "a">>, <<"a", "s", "h">>>>,
  <<<<"a", "t", "a">>, <<"a", "t">>>>,
  <<<<"a", "n", "a">>, <<"a", "n">>>>
  >>

\* the names of the patterns \b(Name)a\b of _clean_itrans_output
trailing_a_names ==
  <<
  <<"R", "a", "m">>,
  <<"S", "h", "y", "a", "m">>,
  <<"M", "o", "h", "a", "n">>,
  <<"K", "r", "i", "s", "h", "n", "a">>,
  <<"G", "e", "e", "t", "a">>,
  <<"S", "i", "t", "a">>,
  <<"R", "a", "d", "h", "a">>,
  <<"P", "r", "a", "k", "a", "s", "h">>,
  <<"V", "i", "k", "a", "s">>,
  <<"R", "a", "j">>,
  <<"D", "e", "v">>
  >>

\* \b(name)a\b matches at i, ignoring case
TrailingAAt(s, name, i) ==
  LET n == Len(name)
  IN /\ i + n <= Len(s)
     /\ LowerStr(SubSeq(s, i, i + n - 1)) = LowerStr(name)
     /\ Lower(s[i + n]) = "a"
     /\ Boundary(s, i)
     /\ Boundary(s, i + n + 1)

RECURSIVE DropTrailingAFrom(_, _, _)
DropTrailingAFrom(s, name, i) ==
  IF i > Len(s) THEN <<>>
  ELSE IF TrailingAAt(s, name, i)
       THEN SubSeq(s, i, i + Len(name) - 1) \o DropTrailingAFrom(s, name, i + Len(name) + 1)
       ELSE <<s[i]>> \o DropTrailingAFrom(s, name, i + 1)

\* re.sub(r'\b(Name)a\b', r'\1', s, flags=re.IGNORECASE)
DropTrailingA(s, name) ==
  IF \E i \in 1..Len(s) : TrailingAAt(s, name, i) THEN DropTrailingAFrom(s, name, 1) ELSE s

RECURSIVE DropTrailingAEach(_, _)
DropTrailingAEach(s, k) ==
  IF k > Len(trailing_a_names) THEN s
  ELSE LET t == DropTrailingA(s, trailing_a_names[k])
       IN IF t = <<>> THEN <<>> ELSE DropTrailingAEach(t, k + 1)

\* FinalVoterDataProcessor._clean_itrans_output
clean_itrans_output(itrans_text) ==
  IF itrans_text = <<>> THEN <<>>
  ELSE LET named == DropTrailingAEach(itrans_text, 1)
           bare  == SelectSeq(named, LAMBDA c : c \notin {"~", "^"})
       IN Strip(CollapseSpaces(bare))

\* the outcomes of the library call UnicodeIndicTransliterator.transliterate:
\* it returns its argument (the target "en" is no script of the library), or
\* it raises
LibraryOutcomes == {"unchanged", "raises"}

MappedNames == {name_mapping[k][1] : k \in 1..Len(name_mapping)}

Mapped(word) == name_mapping[CHOOSE k \in 1..Len(name_mapping) : name_mapping[k][1] = word][2]

\* one word (or the whole text) through the library call and its except branch
Systematic(word, lib) ==
  IF lib = "raises" THEN word ELSE clean_itrans_output(word)

\* FinalVoterDataProcessor._transliterate_with_indic_nlp
transliterate_with_indic_nlp(devanagari_text, lib) ==
  LET text_normalized == Strip(devanagari_text)
      words           == Split(text_normalized)
  IN IF text_normalized \in MappedNames THEN Mapped(text_normalized)
     ELSE IF Len(words) > 1
          THEN Join([k \in 1..Len(words) |->
                       IF words[k] \in MappedNames THEN Mapped(words[k])
                       ELSE Systematic(words[k], lib)])
     ELSE Systematic(text_normalized, lib)

\* the first entry of name_patterns found in s_lower, 0 if none
FirstPattern(s_lower) ==
  LET hits == {k \in 1..Len(name_patterns) : Contains(s_lower, name_patterns[k][1])}
  IN IF hits = {} THEN 0 ELSE Min(hits)

\* the loop over name_patterns: the first pattern found rewrites the lower-cased text
ApplyNamePatterns(s) ==
  LET s_lower == LowerStr(s)
      k       == FirstPattern(s_lower)
  IN IF k = 0 THEN s ELSE StrReplace(s_lower, name_patterns[k][1], name_patterns[k][2])

EndsWith(s, p) == Len(s) >= Len(p) /\ SubSeq(s, Len(s) - Len(p) + 1, Len(s)) = p

\* re.sub(ending + '$', new, s)
ReplaceEnding(s, ending, new) ==
  IF EndsWith(s, ending) THEN SubSeq(s, 1, Len(s) - Len(ending)) \o new ELSE s

RECURSIVE ReplaceEndings(_, _)
ReplaceEndings(s, k) ==
  IF k > Len(ending_replacements) THEN s
  ELSE ReplaceEndings(ReplaceEnding(s, ending_replacements[k][1], ending_replacements[k][2]), k + 1)

Vowels == {"a", "e", "i", "o", "u"}

\* re.sub(r'([aeiou])\1+', r'\1', s)
CollapseVowels(s) ==
  SelectSeq([k \in 1..Len(s) |->
               IF k > 1 /\ s[k] \in Vowels /\ s[k - 1] = s[k] THEN "" ELSE s[k]],
            LAMBDA c : c # "")

LatinNameChar(c) == c \in AsciiLetters \/ c = "-" \/ IsSpace(c)

\* re.sub(r'[^A-Za-z\-\s]', ' ', s)
KeepLatinNameChars(s) == [k \in 1..Len(s) |-> IF LatinNameChar(s[k]) THEN s[k] ELSE " "]

\* unicodedata.normalize('NFC', s): the nukta letters of the composition
\* exclusion table decompose, the others compose
NFCDecomposed ==
  [qa |-> <<"ka", "+nukta">>, khha |-> <<"kha", "+nukta">>, ghha |-> <<"ga", "+nukta">>,
   za |-> <<"ja", "+nukta">>, dddha |-> <<"dda", "+nukta">>, rha |-> <<"ddha", "+nukta">>,
   fa |-> <<"pha", "+nukta">>, yya |-> <<"ya", "+nukta">>]

NFCComposed == [na |-> "nnna", ra |-> "rra", lla |-> "llla"]

RECURSIVE NFCFrom(_, _)
NFCFrom(s, i) ==
  IF i > Len(s) THEN <<>>
  ELSE IF s[i] \in DOMAIN NFCDecomposed THEN NFCDecomposed[s[i]] \o NFCFrom(s, i + 1)
  ELSE IF i < Len(s) /\ s[i] \in DOMAIN NFCComposed /\ s[i + 1] = "+nukta"
       THEN <<NFCComposed[s[i]]>> \o NFCFrom(s, i + 2)
  ELSE <<s[i]>> \o NFCFrom(s, i + 1)

NFC(s) == NFCFrom(s, 1)

\* FinalVoterDataProcessor.transliterate_name, with the outcome of the library call
transliterate_name(hindi_name, lib) ==
  IF hindi_name = <<>> THEN <<>>
  ELSE IF \A k \in 1..Len(hindi_name) :
            hindi_name[k] \in AsciiLetters \cup {"-", "."} \/ IsSpace(hindi_name[k])
       THEN Title(Strip(CollapseSpaces(hindi_name)))
  ELSE LET text            == NFC(hindi_name)
           devanagari_only == Strip(CollapseSpaces(KeepNameChars(text)))
       IN IF devanagari_only = <<>> THEN <<>>
          ELSE LET itrans   == transliterate_with_indic_nlp(devanagari_only, lib)
                   patterned == ApplyNamePatterns(itrans)
                   replaced  == ReplaceEndings(ReplaceEach(patterned, replacements), 1)
                   letters   == KeepLatinNameChars(CollapseVowels(replaced))
               IN Title(Strip(CollapseSpaces(letters)))

(***************************************************************************)
(* Record building, extraction and validation.  The fields a record takes  *)
(* from header_info are the same constants in every record                 *)
(* (extract_header_info) and are left out.                                 *)
(***************************************************************************)
None == [none |-> TRUE]

\* every marker read as male
gender_code_male(gender) == "M"

\* gender_code of parse_middle_text
gender_code(gender) == IF gender \in {PU, PURUSH} THEN "M" ELSE "F"

\* A value that is used more than once is bound as the element of a
\* one-element set, so that it is computed once.

\* voter_name, father_name and address of parse_middle_text, cleaned, for
\* an[1] the address words and an[2] the name words
FieldsOf(an) ==
  CHOOSE fields \in
    { <<clean_and_validate_name(Join(names[1])),
        clean_and_validate_name(Join(names[2])),
        clean_house_number(Strip(Join(an[1])))>> :
      names \in {NameSplit(an[2])} } : TRUE

CleanedFields(words) ==
  CHOOSE fields \in { FieldsOf(an) : an \in {AddressAndNames(words)} } : TRUE

\* voter_record of parse_middle_text
VoterRecord(sr_no, fields, gender, age, lib_outcome) ==
  CHOOSE voter_record \in
    { [age                       |-> age,
       gender                    |-> gender_code(gender),
       srNo                      |-> sr_no,
       voterName                 |-> english[1],
       voterNameHindi            |-> fields[1],
       voterNameLower            |-> LowerStr(english[1]),
       fatherOrHusbandName       |-> english[2],
       fatherOrHusbandNameHindi  |-> fields[2],
       fatherOrHusbandNameLower  |-> LowerStr(english[2]),
       houseNo                   |-> fields[3]] :
      english \in { <<transliterate_name(fields[1], lib_outcome),
                      IF fields[2] # <<>> THEN transliterate_name(fields[2], lib_outcome)
                      ELSE <<>> >> } } : TRUE

\* parse_middle_text without the check of the voter name
RecordOfWordsUnchecked(sr_no, words, gender, age, lib_outcome) ==
  CHOOSE result \in
    { VoterRecord(sr_no, fields, gender, age, lib_outcome) :
      fields \in {CleanedFields(words)} } : TRUE

\* parse_middle_text from the cleaned fields on
RecordOfWords(sr_no, words, gender, age, lib_outcome) ==
  CHOOSE result \in
    { IF fields[1] = <<>> \/ Len(Strip(fields[1])) < 2 THEN None
      ELSE VoterRecord(sr_no, fields, gender, age, lib_outcome) :
      fields \in {CleanedFields(words)} } : TRUE

\* FinalVoterDataProcessor.parse_middle_text: the record, or None
parse_middle_text(sr_no, middle_text, gender, age, lib_outcome) ==
  CHOOSE result \in
    { IF Len(words) < 1 THEN None
      ELSE RecordOfWords(sr_no, words, gender, age, lib_outcome) :
      words \in {Split(Strip(CollapseSpaces(middle_text)))} } : TRUE

\* the loop body with a range check that leaves out the age 18
MatchRecordsOver18(m, lib_outcome) ==
  CHOOSE found \in
    { IF age <= 18 \/ age > 120 THEN <<>>
      ELSE CHOOSE records \in
             { IF voter_record = None THEN <<>> ELSE <<voter_record>> :
               voter_record \in
                 {parse_middle_text(m.sr_no, Strip(m.middle_text), m.gender, age, lib_outcome)} } : TRUE :
      age \in {PyInt(m.age_str)} } : TRUE

\* the body of the loop over the matches of extract_voters_from_line: the
\* records one match adds
MatchRecords(m, lib_outcome) ==
  CHOOSE found \in
    { IF age < 18 \/ age > 120 THEN <<>>
      ELSE CHOOSE records \in
             { IF voter_record = None THEN <<>> ELSE <<voter_record>> :
               voter_record \in
                 {parse_middle_text(m.sr_no, Strip(m.middle_text), m.gender, age, lib_outcome)} } : TRUE :
      age \in {PyInt(m.age_str)} } : TRUE

RECURSIVE ExtractFromUntilDiscard(_, _, _)
\* the loop left at the first match whose age is out of range
ExtractFromUntilDiscard(line, pos, lib_outcome) ==
  CHOOSE found \in
    { IF ~m.found THEN <<>>
      ELSE IF PyInt(m.age_str) < 18 \/ PyInt(m.age_str) > 120 THEN <<>>
      ELSE MatchRecords(m, lib_outcome) \o ExtractFromUntilDiscard(line, m.end, lib_outcome) :
      m \in {NextMatch(line, pos)} } : TRUE

RECURSIVE ExtractFrom(_, _, _)
\* the loop over re.finditer(voter_pattern, line), from pos on
ExtractFrom(line, pos, lib_outcome) ==
  CHOOSE found \in
    { IF ~m.found THEN <<>>
      ELSE MatchRecords(m, lib_outcome) \o ExtractFrom(line, m.end, lib_outcome) :
      m \in {NextMatch(line, pos)} } : TRUE

\* FinalVoterDataProcessor.extract_voters_from_line
extract_voters_from_line(line, lib_outcome) ==
  IF line = <<>> \/ Len(line) < 20 THEN <<>>
  ELSE CHOOSE found \in
         { ExtractFrom(cleaned_line, 1, lib_outcome) : cleaned_line \in {clean_cid_text(line)} } : TRUE

RECURSIVE SplitLinesFrom(_, _)
SplitLinesFrom(s, i) ==
  LET S == {j \in i..Len(s) : s[j] = "\n"}
      e == IF S = {} THEN Len(s) + 1 ELSE Min(S)
  IN IF i > Len(s) THEN <<>> ELSE <<SubSeq(s, i, e - 1)>> \o SplitLinesFrom(s, e + 1)

\* [line.strip() for line in text_data.split('\n') if line.strip()]
Lines(text_data) ==
  LET raw      == SplitLinesFrom(text_data, 1)
      stripped == [k \in 1..Len(raw) |-> Strip(raw[k])]
  IN SelectSeq(stripped, LAMBDA l : l # <<>>)

RECURSIVE ExtractLines(_, _)
\* the loop over the lines of parse_voter_data
ExtractLines(lines, lib_outcome) ==
  IF lines = <<>> THEN <<>>
  ELSE CHOOSE found \in
         { extract_voters_from_line(first, lib_outcome) \o ExtractLines(rest, lib_outcome) :
           first \in {Head(lines)}, rest \in {Tail(lines)} } : TRUE

\* FinalVoterDataProcessor.parse_voter_data
parse_voter_data(text_data, lib_outcome) ==
  IF text_data = <<>> THEN <<>>
  ELSE CHOOSE found \in
         { ExtractLines(lines, lib_outcome) : lines \in {Lines(text_data)} } : TRUE

NoSpaces(s) == SelectSeq(s, LAMBDA c : c # " ")

\* 'not record.get(field) or str(record.get(field)).strip() == ""' for a text field
MissingText(value) == value = <<>> \/ Strip(value) = <<>>

\* the issues of FinalVoterDataProcessor.validate_voter_record, in order
Issues(record) ==
  (IF MissingText(record.srNo) THEN <<"Missing srNo">> ELSE <<>>)
  \o (IF MissingText(record.voterName) THEN <<"Missing voterName">> ELSE <<>>)
  \o (IF MissingText(record.voterNameHindi) THEN <<"Missing voterNameHindi">> ELSE <<>>)
  \o (IF record.age = 0 THEN <<"Missing age">> ELSE <<>>)
  \o (IF record.gender = "" THEN <<"Missing gender">> ELSE <<>>)
  \o (IF record.age < 18 \/ record.age > 120 THEN <<"Invalid age">> ELSE <<>>)
  \o (IF record.gender \notin {"M", "F"} THEN <<"Invalid gender">> ELSE <<>>)
  \o (IF Len(NoSpaces(record.voterNameHindi)) < 2 THEN <<"Hindi voter name too short">> ELSE <<>>)
  \o (IF Len(NoSpaces(record.voterName)) < 2
      THEN <<"English voter name too short or missing">> ELSE <<>>)
  \o (IF record.voterNameHindi # <<>> /\ record.voterName = <<>>
      THEN <<"Transliteration failed for voter name">> ELSE <<>>)
  \o (IF record.fatherOrHusbandNameHindi # <<>> /\ record.fatherOrHusbandName = <<>>
      THEN <<"Transliteration failed for father/husband name">> ELSE <<>>)

\* FinalVoterDataProcessor.validate_voter_record
validate_voter_record(record) ==
  CHOOSE validation_result \in
    { [valid         |-> Len(issues) = 0,
       issues        |-> issues,
       quality_score |-> Max({0, 100 - Len(issues) * 10})] :
      issues \in {Issues(record)} } : TRUE

(***************************************************************************)
(* Entry parsing (VoterDataProcessor.parse_voter_entry).                   *)
(***************************************************************************)
\* re.sub(r'\s+', ' ', text.strip()), "" for an empty text
clean_text(text) == CollapseSpaces(Strip(text))

\* the alternation (पु|म|फ|पुरुष|महिला) of the first pattern
StrictMarkers == {PU, MA, PHA, PURUSH, MAHILA}

\* the alternation (पु|म|फ) of the second pattern
FallbackMarkers == {PU, MA, PHA}

\* the characters the class [^पुमफ] leaves out
FallbackStops == {"pa", "+u", "ma", "pha"}

\* (\d+)\s+ tried at i in a text without runs of spaces: the index after the
\* space that follows the digits, 0 when it fails
SerialEnd(s, i) ==
  IF i > Len(s) \/ ~IsDigit(s[i]) THEN 0
  ELSE CHOOSE r \in { IF e <= Len(s) /\ IsSpace(s[e]) THEN e + 1 ELSE 0
                      : e \in {DigitRunEnd(s, i)} } : TRUE

\* The first pattern tried at i, s a result of clean_text:
\*   (\d+)\s+([^\d\s]+(?:\s+[^\d\s]+)*?)\s+([^\d\s]+(?:\s+[^\d\s]+)*?)\s+(पु|म|फ|पुरुष|महिला)\s+(\d+)
\* Between the serial and the age stand words without a digit.  The word
\* before the age is the marker, the first word is group 2 (the lazy
\* repetition takes no further word when one is left for group 3), the
\* words between them are group 3.
StrictTail(s, i, q, d) ==
  IF d > Len(s) \/ d < q + 2 THEN NoMatch
  ELSE CHOOSE r \in
    { IF Len(words) >= 3 /\ words[Len(words)] \in StrictMarkers
      THEN [found |-> TRUE, groups |-> 5,
            sr_no |-> SubSeq(s, i, q - 2),
            house_or_name1 |-> words[1],
            name_or_father |-> Join(SubSeq(words, 2, Len(words) - 1)),
            gender |-> words[Len(words)],
            age |-> SubSeq(s, d, DigitRunEnd(s, d) - 1)]
      ELSE NoMatch
      : words \in {Split(SubSeq(s, q, d - 2))} } : TRUE

StrictAt(s, i) ==
  CHOOSE r \in
    { IF q = 0 THEN NoMatch
      ELSE CHOOSE t \in { StrictTail(s, i, q, d) : d \in {NextDigit(s, q)} } : TRUE
      : q \in {SerialEnd(s, i)} } : TRUE

\* the first index >= i that holds one of प ु म फ, Len(s) + 1 if none
NextStop(s, i) ==
  LET S == {j \in i..Len(s) : s[j] \in FallbackStops} IN IF S = {} THEN Len(s) + 1 ELSE Min(S)

\* The second pattern tried at i, s a result of clean_text:
\*   (\d+)\s+([^पुमफ]+?)\s+(पु|म|फ)\s+(\d+)
\* Group 2 runs up to the space before the first of the characters its class
\* leaves out; there the marker has to stand as a word, followed by a digit.
FallbackTail(s, i, q, x) ==
  IF x > Len(s) \/ x < q + 2 \/ ~IsSpace(s[x - 1]) THEN NoMatch
  ELSE CHOOSE r \in
    { IF /\ SubSeq(s, x, e - 1) \in FallbackMarkers
         /\ e + 1 <= Len(s)
         /\ IsDigit(s[e + 1])
      THEN [found |-> TRUE, groups |-> 4,
            sr_no |-> SubSeq(s, i, q - 2),
            voter_name |-> SubSeq(s, q, x - 2),
            gender |-> SubSeq(s, x, e - 1),
            age |-> SubSeq(s, e + 1, DigitRunEnd(s, e + 1) - 1)]
      ELSE NoMatch
      : e \in {NextSpace(s, x)} } : TRUE

FallbackAt(s, i) ==
  CHOOSE r \in
    { IF q = 0 THEN NoMatch
      ELSE CHOOSE t \in { FallbackTail(s, i, q, x) : x \in {NextStop(s, q)} } : TRUE
      : q \in {SerialEnd(s, i)} } : TRUE

\* patterns[pattern] tried at i
PatternAt(pattern, s, i) == IF pattern = 1 THEN StrictAt(s, i) ELSE FallbackAt(s, i)

\* re.search(patterns[pattern], s): the match at the leftmost index that has one
Search(pattern, s) ==
  CHOOSE r \in
    { IF starts = {} THEN NoMatch ELSE PatternAt(pattern, s, Min(starts))
      : starts \in {{i \in 1..Len(s) : PatternAt(pattern, s, i).found}} } : TRUE

\* r'^[a-zA-Z\s\.\-]+$'
LatinOnly(s) ==
  /\ s # <<>>
  /\ \A k \in 1..Len(s) : s[k] \in AsciiLetters \/ IsSpace(s[k]) \/ s[k] \in {".", "-"}

\* re.sub(r'[^\w\s]', '', s)
KeepWordChars(s) == SelectSeq(s, LAMBDA c : IsWordChar(c) \/ IsSpace(c))

\* hindi_english_map, in the order of the dict (a key written twice keeps its
\* first place)
hindi_english_map ==
  <<
    <<<<"pa", "+u">>, <<"M">>>>,
    <<<<"pa", "+u", "ra", "+u", "ssa">>, <<"M">>>>,
    <<<<"ma">>, <<"F">>>>,
    <<<<"ma", "ha", "+i", "la", "+aa">>, <<"F">>>>,
    <<<<"pha">>, <<"F">>>>,
    <<<<"pa", "+u", "+anusvara">>, <<"M">>>>,
    <<<<"ga", "+aa", "ja", "+i", "ya", "+aa", "ba", "+aa", "da">>, <<"G", "h", "a", "z", "i", "a", "b", "a", "d">>>>,
    <<<<"ga", "+aa", "ja", "+nukta", "+i", "ya", "+aa", "ba", "+aa", "da">>, <<"G", "h", "a", "z", "i", "a", "b", "a", "d">>>>,
    <<<<"ka", "+vocalicr", "ssa", "+virama", "nna", "na">>, <<"K", "r", "i", "s", "h", "a", "n">>>>,
    <<<<"ka", "+vocalicr", "ssa", "na">>, <<"K", "r", "i", "s", "h", "a", "n">>>>,
    <<<<"ka", "+vocalicr", "ssa", "+virama", "nna">>, <<"K", "r", "i", "s", "h", "n", "a">>>>,
    <<<<"na", "ga", "ra">>, <<"N", "a", "g", "a", "r">>>>,
    <<<<"sa", "ra", "+i", "ta", "+aa">>, <<"S", "a", "r", "i", "t", "a">>>>,
    <<<<"da", "+e", "va", "+ii">>, <<"D", "e", "v", "i">>>>,
    <<<<"vO", "ma">>, <<"O", "m">>>>,
    <<<<"pa", "+virama", "ra", "ka", "+aa", "sha">>, <<"P", "r", "a", "k", "a", "s", "h">>>>,
    <<<<"ra", "+aa", "ma">>, <<"R", "a", "m">>>>,
    <<<<"sha", "ra", "+virama", "ma", "+aa">>, <<"S", "h", "a", "r", "m", "a">>>>,
    <<<<"ga", "+u", "pa", "+virama", "ta", "+aa">>, <<"G", "u", "p", "t", "a">>>>,
    <<<<"sa", "+i", "+anusvara", "ha">>, <<"S", "i", "n", "g", "h">>>>,
    <<<<"ka", "+u", "ma", "+aa", "ra">>, <<"K", "u", "m", "a", "r">>>>,
    <<<<"ka", "+u", "ma", "+aa", "ra", "+ii">>, <<"K", "u", "m", "a", "r", "i">>>>,
    <<<<"ba", "+aa", "ba", "+uu">>, <<"B", "a", "b", "u">>>>,
    <<<<"la", "+aa", "la">>, <<"L", "a", "l">>>>,
    <<<<"ca", "+anusvara", "da">>, <<"C", "h", "a", "n", "d">>>>,
    <<<<"ca", "+aa", "+anusvara", "da">>, <<"C", "h", "a", "n", "d">>>>,
    <<<<"da", "+aa", "sa">>, <<"D", "a", "s">>>>,
    <<<<"ga", "+o", "pa", "+aa", "la">>, <<"G", "o", "p", "a", "l">>>>,
    <<<<"ra", "+aa", "ja">>, <<"R", "a", "j">>>>,
    <<<<"sa", "+u", "na", "+ii", "ta", "+aa">>, <<"S", "u", "n", "i", "t", "a">>>>,
    <<<<"ma", "+ii", "ra", "+aa">>, <<"M", "e", "e", "r", "a">>>>,
    <<<<"ga", "+ii", "ta", "+aa">>, <<"G", "e", "e", "t", "a">>>>,
    <<<<"vA", "na", "+i", "ta", "+aa">>, <<"A", "n", "i", "t", "a">>>>,
    <<<<"ra", "+ii", "ta", "+aa">>, <<"R", "i", "t", "a">>>>,
    <<<<"sa", "+ii", "ta", "+aa">>, <<"S", "e", "e", "t", "a">>>>,
    <<<<"va", "+i", "ja", "ya">>, <<"V", "i", "j", "a", "y">>>>,
    <<<<"vA", "ja", "ya">>, <<"A", "j", "a", "y">>>>,
    <<<<"sa", "+anusvara", "ja", "ya">>, <<"S", "a", "n", "j", "a", "y">>>>,
    <<<<"ra", "+aa", "ja", "+e", "sha">>, <<"R", "a", "j", "e", "s", "h">>>>,
    <<<<"sa", "+u", "ra", "+e", "sha">>, <<"S", "u", "r", "e", "s", "h">>>>,
    <<<<"ma", "ha", "+e", "sha">>, <<"M", "a", "h", "e", "s", "h">>>>,
    <<<<"da", "+i", "na", "+e", "sha">>, <<"D", "i", "n", "e", "s", "h">>>>,
    <<<<"na", "ra", "+e", "sha">>, <<"N", "a", "r", "e", "s", "h">>>>,
    <<<<"vU", "ma", "+e", "sha">>, <<"U", "m", "e", "s", "h">>>>,
    <<<<"ra", "ma", "+e", "sha">>, <<"R", "a", "m", "e", "s", "h">>>>,
    <<<<"ya", "+o", "ga", "+e", "sha">>, <<"Y", "o", "g", "e", "s", "h">>>>,
    <<<<"ma", "+u", "ka", "+e", "sha">>, <<"M", "u", "k", "e", "s", "h">>>>,
    <<<<"ra", "va", "+i", "ka", "+aa", "+anusvara", "ta">>, <<"R", "a", "v", "i", "k", "a", "n", "t">>>>,
    <<<<"sha", "+i", "va", "ka", "+u", "ma", "+aa", "ra">>, <<"S", "h", "i", "v", "k", "u", "m", "a", "r">>>>,
    <<<<"ja", "ga", "da", "+ii", "sha">>, <<"J", "a", "g", "d", "i", "s", "h">>>>,
    <<<<"ha", "ra", "+ii", "sha">>, <<"H", "a", "r", "i", "s", "h">>>>,
    <<<<"ga", "+i", "ra", "+ii", "sha">>, <<"G", "i", "r", "i", "s", "h">>>>,
    <<<<"vA", "sha", "+o", "ka">>, <<"A", "s", "h", "o", "k">>>>,
    <<<<"va", "+i", "na", "+o", "da">>, <<"V", "i", "n", "o", "d">>>>,
    <<<<"pa", "+virama", "ra", "ma", "+o", "da">>, <<"P", "r", "a", "m", "o", "d">>>>,
    <<<<"pa", "+anusvara", "ka", "ja">>, <<"P", "a", "n", "k", "a", "j">>>>,
    <<<<"va", "+i", "ka", "+aa", "sa">>, <<"V", "i", "k", "a", "s">>>>,
    <<<<"vAA", "ka", "+aa", "sha">>, <<"A", "k", "a", "s", "h">>>>,
    <<<<"sa", "+u", "ma", "+i", "ta", "+virama", "ra", "+aa">>, <<"S", "u", "m", "i", "t", "r", "a">>>>,
    <<<<"ka", "ma", "la", "+aa">>, <<"K", "a", "m", "a", "l", "a">>>>,
    <<<<"sha", "+aa", "+anusvara", "ta", "+i">>, <<"S", "h", "a", "n", "t", "i">>>>,
    <<<<"sa", "+u", "dha", "+aa">>, <<"S", "u", "d", "h", "a">>>>,
    <<<<"vU", "ssa", "+aa">>, <<"U", "s", "h", "a">>>>,
    <<<<"ma", "+aa", "ya", "+aa">>, <<"M", "a", "y", "a">>>>,
    <<<<"sa", "ra", "la", "+aa">>, <<"S", "a", "r", "l", "a">>>>,
    <<<<"ba", "+i", "ma", "la", "+aa">>, <<"B", "i", "m", "a", "l", "a">>>>,
    <<<<"na", "+i", "ra", "+virama", "ma", "la", "+aa">>, <<"N", "i", "r", "m", "a", "l", "a">>>>,
    <<<<"sa", "+anusvara", "ta", "+o", "ssa">>, <<"S", "a", "n", "t", "o", "s", "h">>>>,
    <<<<"pa", "+virama", "ra", "ka", "+aa", "sha", "+ii">>, <<"P", "r", "a", "k", "a", "s", "h", "i">>>>,
    <<<<"sa", "+u", "sha", "+ii", "la", "+aa">>, <<"S", "u", "s", "h", "i", "l", "a">>>>,
    <<<<"ka", "va", "+i", "ta", "+aa">>, <<"K", "a", "v", "i", "t", "a">>>>,
    <<<<"ma", "ma", "ta", "+aa">>, <<"M", "a", "m", "t", "a">>>>,
    <<<<"pa", "+uu", "ja", "+aa">>, <<"P", "o", "o", "j", "a">>>>,
    <<<<"pa", "+virama", "ra", "+i", "ya", "+aa">>, <<"P", "r", "i", "y", "a">>>>
  >>

char_map ==
  <<
    <<<<"vA">>, <<"a">>>>,
    <<<<"vAA">>, <<"a", "a">>>>,
    <<<<"vI">>, <<"i">>>>,
    <<<<"vII">>, <<"e", "e">>>>,
    <<<<"vU">>, <<"u">>>>,
    <<<<"vUU">>, <<"o", "o">>>>,
    <<<<"vE">>, <<"e">>>>,
    <<<<"vAI">>, <<"a", "i">>>>,
    <<<<"vO">>, <<"o">>>>,
    <<<<"vAU">>, <<"a", "u">>>>,
    <<<<"ka">>, <<"k">>>>,
    <<<<"kha">>, <<"k", "h">>>>,
    <<<<"ga">>, <<"g">>>>,
    <<<<"gha">>, <<"g", "h">>>>,
    <<<<"nga">>, <<"n", "g">>>>,
    <<<<"ca">>, <<"c", "h">>>>,
    <<<<"cha">>, <<"c", "h", "h">>>>,
    <<<<"ja">>, <<"j">>>>,
    <<<<"jha">>, <<"j", "h">>>>,
    <<<<"nya">>, <<"n", "y">>>>,
    <<<<"tta">>, <<"t">>>>,
    <<<<"ttha">>, <<"t", "h">>>>,
    <<<<"dda">>, <<"d">>>>,
    <<<<"ddha">>, <<"d", "h">>>>,
    <<<<"nna">>, <<"n">>>>,
    <<<<"ta">>, <<"t">>>>,
    <<<<"tha">>, <<"t", "h">>>>,
    <<<<"da">>, <<"d">>>>,
    <<<<"dha">>, <<"d", "h">>>>,
    <<<<"na">>, <<"n">>>>,
    <<<<"pa">>, <<"p">>>>,
    <<<<"pha">>, <<"p", "h">>>>,
    <<<<"ba">>, <<"b">>>>,
    <<<<"bha">>, <<"b", "h">>>>,
    <<<<"ma">>, <<"m">>>>,
    <<<<"ya">>, <<"y">>>>,
    <<<<"ra">>, <<"r">>>>,
    <<<<"la">>, <<"l">>>>,
    <<<<"va">>, <<"v">>>>,
    <<<<"sha">>, <<"s", "h">>>>,
    <<<<"ssa">>, <<"s", "h">>>>,
    <<<<"sa">>, <<"s">>>>,
    <<<<"ha">>, <<"h">>>>,
    <<<<"+aa">>, <<"a">>>>,
    <<<<"+i">>, <<"i">>>>,
    <<<<"+ii">>, <<"e", "e">>>>,
    <<<<"+u">>, <<"u">>>>,
    <<<<"+uu">>, <<"o", "o">>>>,
    <<<<"+e">>, <<"e">>>>,
    <<<<"+ai">>, <<"a", "i">>>>,
    <<<<"+o">>, <<"o">>>>,
    <<<<"+au">>, <<"a", "u">>>>,
    <<<<"+virama">>, <<>>>>,
    <<<<"+anusvara">>, <<"n">>>>,
    <<<<"+visarga">>, <<"h">>>>
  >>

\* VoterDataProcessor.transliterate_name
pdf_transliterate_name(hindi_name) ==
  IF hindi_name = <<>> THEN <<>>
  ELSE IF LatinOnly(hindi_name) THEN Title(hindi_name)
  ELSE CHOOSE r \in
    { IF english_name # <<>> THEN english_name ELSE hindi_name
      : english_name \in
          { Title(Strip(CollapseSpaces(KeepWordChars(
              ReplaceEach(ReplaceEach(hindi_name, hindi_english_map), char_map))))) } } : TRUE

\* the number of digits of a digit string
DigitCount(digits) ==
  Len(digits) + 4300 * Cardinality({k \in 1..Len(digits) : digits[k] = NINES})

\* int(age) raises ValueError: the digits are more than the 4300 that int()
\* converts where the interpreter limits them
IntRaises(age, limited) == limited /\ DigitCount(age) > 4300

\* the ASCII digit of a decimal digit
AsciiDigit(c) ==
  IF c = NINES THEN c
  ELSE <<"0", "1", "2", "3", "4", "5", "6", "7", "8", "9">>[DigitValue(c) + 1]

RECURSIVE DropZeros(_)
DropZeros(digits) ==
  IF Len(digits) > 1 /\ digits[1] = "0" THEN DropZeros(Tail(digits)) ELSE digits

\* int(age), the integer written in decimal: ASCII digits without leading
\* zeros, which also writes an integer of 4301 digits.
IntOf(age) == DropZeros([k \in 1..Len(age) |-> AsciiDigit(age[k])])

\* voter_name, father_name of a match
MatchNames(m) ==
  IF m.groups = 5 THEN <<Strip(m.house_or_name1), Strip(m.name_or_father)>>
  ELSE <<m.voter_name, <<>>>>

\* voter_record of a match, without the fields copied from header_info
voter_record(m) ==
  CHOOSE r \in
    { [srNo |-> m.sr_no,
       voterName |-> english[1],
       voterNameHindi |-> names[1],
       voterNameLower |-> LowerStr(english[1]),
       fatherOrHusbandName |-> english[2],
       fatherOrHusbandNameHindi |-> names[2],
       fatherOrHusbandNameLower |-> LowerStr(english[2]),
       gender |-> IF m.gender \in {PU, PURUSH} THEN "M" ELSE "F",
       age |-> IntOf(m.age),
       houseNo |-> <<>>]
      : names \in {MatchNames(m)},
        english \in {<<pdf_transliterate_name(MatchNames(m)[1]),
                       pdf_transliterate_name(MatchNames(m)[2])>>} } : TRUE

(***************************************************************************)
(* Header extraction (extract_header_info of both processors).             *)
(***************************************************************************)
HeaderKeys ==
  { "district", "bodyNumber", "ward", "pollingCenter", "partNumber", "roomNumber",
    "sectionNumber", "locality" }

\* FinalVoterDataProcessor.extract_header_info: the text is not looked at
extract_header_info(text) ==
  [ district |-> <<"0", "2", "3", "-", "G", "h", "a", "z", "i", "a", "b", "a", "d">>,
    bodyNumber |-> <<"1", "-", "G", "h", "a", "z", "i", "a", "b", "a", "d">>,
    ward |-> <<"3", "-", "B", "a", "b", "u", " ", "K", "r", "i", "s", "h", "a", "n", " ",
               "N", "a", "g", "a", "r">>,
    pollingCenter |-> <<"8", "-", "C", "e", "n", "t", " ", "P", "a", "u", "l", " ", "P", "u",
                        "b", "l", "i", "c", " ", "S", "c", "h", "o", "o", "l", " ", "K", "r",
                        "i", "s", "h", "a", "n", " ", "N", "a", "g", "a", "r", " ", "B", "a",
                        "b", "u">>,
    partNumber |-> <<"4">>,
    roomNumber |-> <<"5">>,
    sectionNumber |-> <<"4">>,
    locality |-> <<"K", "r", "i", "s", "h", "y", "a", "n", " ", "N", "a", "g", "a", "r">> ]

ZILA        == <<"ja", "+i", "la", "+aa">>
ZILA_NUKTA  == <<"ja", "+nukta", "+i", "la", "+aa">>
NIKAY       == <<"na", "+i", "ka", "+aa", "ya">>
GHAZIABAD   == <<"ga", "+aa", "ja", "+i", "ya", "+aa", "ba", "+aa", "da">>
WARD        == <<"va", "+aa", "ra", "+virama", "dda">>
SCHOOL      == <<"sa", "+virama", "ka", "+uu", "la">>
PART_NUMBER == <<"bha", "+aa", "ga", " ", "sa", "+anusvara", "kha", "+virama", "ya", "+aa">>

\* [0-9]
IsAsciiDigit(c) == c \in AsciiDigits \cup {NINES}

\* the first index >= i whose character is not in the set, Len(s) + 1 if none
RunEnd(s, i, chars) ==
  LET S == {j \in i..Len(s) : s[j] \notin chars} IN IF S = {} THEN Len(s) + 1 ELSE Min(S)

\* the first index >= i that holds an ASCII digit, Len(s) + 1 if none
NextAsciiDigit(s, i) ==
  LET S == {j \in i..Len(s) : IsAsciiDigit(s[j])} IN IF S = {} THEN Len(s) + 1 ELSE Min(S)

\* [^0-9\s]
WardChar(c) == ~IsAsciiDigit(c) /\ ~IsSpace(c)

\* The ways (\d+[-\s]*[^0-9\s]+) can match at i: <<e, p>> with the digits
\* s[i..e-1], the separators s[e..p-1] and s[p] the first character of the
\* last class.
WardSplits(s, i) ==
  { <<e, p>> \in ((i + 1)..(Len(s) + 1)) \X (1..Len(s)) :
      /\ \A j \in i..(e - 1) : IsDigit(s[j])
      /\ e <= p
      /\ \A j \in e..(p - 1) : s[j] = "-" \/ IsSpace(s[j])
      /\ WardChar(s[p]) }

\* (\d+[-\s]*[^0-9\s]+) tried at i: the text of the match, <<>> when it
\* fails.  The quantifiers are greedy: the longest run of digits that lets
\* the rest match, then the longest run of separators.
WardAt(s, i) ==
  LET W  == WardSplits(s, i)
      e  == Max({w[1] : w \in W})
      p  == Max({w[2] : w \in {v \in W : v[1] = e}})
      n  == Min({j \in p..(Len(s) + 1) : j > Len(s) \/ ~WardChar(s[j])})
  IN IF W = {} THEN <<>> ELSE SubSeq(s, i, n - 1)

\* re.search(r'(\d+[-\s]*[^0-9\s]+)', s).group(1), <<>> without a match
WardSearch(s) ==
  LET starts == {i \in 1..Len(s) : WardAt(s, i) # <<>>}
  IN IF starts = {} THEN <<>> ELSE WardAt(s, Min(starts))

RECURSIVE SplitOn(_, _)
\* s.split(c)
SplitOn(s, c) ==
  LET S == {j \in 1..Len(s) : s[j] = c}
  IN IF S = {} THEN <<s>>
     ELSE <<SubSeq(s, 1, Min(S) - 1)>> \o SplitOn(SubSeq(s, Min(S) + 1, Len(s)), c)

\* (\d+[-\s]*[^0-9]+स्कूल[^0-9]*) tried at i: the text of the match, <<>>
\* when it fails.  After the digits, at least one character that is no ASCII
\* digit stands before स्कूल; the match runs on to the next ASCII digit.
SchoolAt(s, i) ==
  LET ok == \E e \in (i + 1)..Len(s), k \in (i + 2)..Len(s) :
              /\ \A j \in i..(e - 1) : IsDigit(s[j])
              /\ e < k
              /\ \A j \in e..(k - 1) : ~IsAsciiDigit(s[j])
              /\ StartsAt(s, SCHOOL, k)
      e0 == Min({j \in (i + 1)..(Len(s) + 1) : j > Len(s) \/ ~IsAsciiDigit(s[j])})
  IN IF i <= Len(s) /\ IsDigit(s[i]) /\ ok
     THEN SubSeq(s, i, NextAsciiDigit(s, e0) - 1) ELSE <<>>

\* re.search(r'(\d+[-\s]*[^0-9]+स्कूल[^0-9]*)', s).group(1), <<>> without a match
SchoolSearch(s) ==
  LET starts == {i \in 1..Len(s) : SchoolAt(s, i) # <<>>}
  IN IF starts = {} THEN <<>> ELSE SchoolAt(s, Min(starts))

\* re.search(r'भाग संख्या[:\s]*(\d+)', s).group(1), <<>> without a match
PartSearch(s) ==
  LET after(k) == RunEnd(s, k + Len(PART_NUMBER), {":", " ", "\n", "\t"})
      starts == {k \in 1..Len(s) :
                   /\ StartsAt(s, PART_NUMBER, k)
                   /\ after(k) <= Len(s)
                   /\ IsDigit(s[after(k)])}
  IN IF starts = {} THEN <<>>
     ELSE SubSeq(s, after(Min(starts)), DigitRunEnd(s, after(Min(starts))) - 1)

\* the ward of a line that holds वार्ड, or the ward so far
WardOf(ward, line) ==
  LET ward_parts == SplitOn(WardSearch(line), "-")
  IN IF Contains(line, WARD) /\ WardSearch(line) # <<>> /\ Len(ward_parts) >= 2
     THEN ward_parts[1] \o <<"-">> \o pdf_transliterate_name(Strip(ward_parts[2]))
     ELSE ward

\* the body of the loop over the lines of VoterDataProcessor.extract_header_info
HeaderLine(info, line) ==
  [ district |->
      IF (Contains(line, ZILA) \/ Contains(line, ZILA_NUKTA)) /\ Contains(line, GHAZIABAD)
      THEN <<"0", "2", "3", "-", "G", "h", "a", "z", "i", "a", "b", "a", "d">>
      ELSE info.district,
    bodyNumber |->
      IF Contains(line, NIKAY) /\ Contains(line, GHAZIABAD)
      THEN <<"1", "-", "G", "h", "a", "z", "i", "a", "b", "a", "d">>
      ELSE info.bodyNumber,
    ward |-> WardOf(info.ward, line),
    pollingCenter |->
      IF Contains(line, SCHOOL) /\ SchoolSearch(line) # <<>>
      THEN pdf_transliterate_name(SchoolSearch(line))
      ELSE info.pollingCenter,
    partNumber |->
      IF Contains(line, PART_NUMBER) /\ PartSearch(line) # <<>>
      THEN PartSearch(line)
      ELSE info.partNumber,
    roomNumber |-> info.roomNumber,
    sectionNumber |-> info.sectionNumber ]

RECURSIVE HeaderLinesFrom(_, _)
HeaderLinesFrom(info, lines) ==
  IF lines = <<>> THEN info
  ELSE HeaderLinesFrom(HeaderLine(info, Strip(Head(lines))), Tail(lines))

\* VoterDataProcessor.extract_header_info: the first ten lines are looked at
pdf_extract_header_info(text) ==
  LET lines == SplitLinesFrom(text, 1)
      empty == [ district |-> <<>>, bodyNumber |-> <<>>, ward |-> <<>>,
                 pollingCenter |-> <<>>, partNumber |-> <<>>, roomNumber |-> <<>>,
                 sectionNumber |-> <<>> ]
  IN HeaderLinesFrom(empty, SubSeq(lines, 1, Min({10, Len(lines)})))

(***************************************************************************)
(* State.                                                                  *)
(***************************************************************************)
VARIABLES
  rawParts,    \* glyph repair: the pieces of the text handed to clean_cid_text
  cleaner,     \* glyph repair: which clean_cid_text ran ("none", "final", "pdf")
  cleaned,     \* glyph repair: clean_cid_text(text)
  recleaned,   \* glyph repair: clean_cid_text(clean_cid_text(text))
  rstage,      \* glyph repair: "input", "cleaned", "recleaned"
  blob,        \* name splitting: the words of a name blob (name_words)
  parts,       \* name splitting: <<voter words, father words>>
  splitter,    \* name splitting: "none", "parse_middle_text", "split_names"
  lib,         \* the outcome of the calls of the transliteration library
  entry,       \* extraction: the entry the line starts with (serial, words, marker, age)
  tail,        \* extraction: what follows the entry on the line, with its space
  voters,      \* extraction: extract_voters_from_line(line)
  validation,  \* extraction: validate_voter_record(record), None before
  estage,      \* extraction: "input", "extracted", "validated"
  pdf_pages,      \* process_pdf_file: len(pdf.pages)
  failure,        \* process_pdf_file: where the try block raised, "none" if nowhere
  pagesDone,      \* process_pdf_file: the number of pages read
  all_voters,     \* process_pdf_file: the records extracted so far
  next_voter,     \* process_pdf_file: the index the loop over all_voters is at
  seen,           \* process_pdf_file: the keys of the records kept
  unique_voters,  \* process_pdf_file: the records kept
  valid_count,    \* process_pdf_file: the number of records kept
  quality_scores, \* process_pdf_file: the score of every record looked at
  pstage,         \* process_pdf_file: "pages", "dedup", "returned"
  int_limit,      \* parse_voter_entry: int() refuses strings of too many digits
  entry_parts,    \* parse_voter_entry: the pieces of the text handed in
  entry_text,     \* parse_voter_entry: the entry text, cleaned
  pattern_no,     \* parse_voter_entry: the pattern the loop is at (3: past the last)
  attempts,       \* parse_voter_entry: what each pattern tried did ("none", "raised", "record")
  entry_result,   \* parse_voter_entry: the record returned, None before and if none
  pestage,        \* parse_voter_entry: "input", "trying", "returned"
  header_lines,   \* extract_header_info: the lines of the page text
  header_by,      \* extract_header_info: whose ran ("none", "final", "pdf")
  header,         \* extract_header_info: the dict returned, None before
  tr_words,       \* transliterate_name: the words of the name handed in
  tr_lib,         \* transliterate_name: the outcome of the calls of the library
  tr_result,      \* transliterate_name: the string returned
  tr_stage,       \* transliterate_name: "input", "returned"
  pages_text,     \* batch_process_pages: the list of page texts handed in
  results,        \* batch_process_pages: the list of StructuredData built so far
  page_num,       \* batch_process_pages: the number the loop gives the next page
  raised,         \* batch_process_pages: the pages extract_structured_data raised for
  bstage,         \* batch_process_pages: "input", "loop", "returned"
  entities,        \* filter_duplicates: the list of entities handed in
  unique_entities, \* filter_duplicates: the list of the entities kept
  next_entity,     \* filter_duplicates: the index the loop over entities is at
  dstage,          \* filter_duplicates: "input", "loop", "returned"
  max_retries,     \* retry_operation: the argument max_retries
  attempt,         \* retry_operation: the value of the loop variable
  calls,           \* retry_operation: the outcome of every call of operation, in order
  last_exception,  \* retry_operation: the local last_exception
  retry_outcome,   \* retry_operation: what the function returned or raised, None before
  retry_stage,     \* retry_operation: "loop", "returned", "raised"
  records,         \* FileTracker._records: the record of every file id, None if it has none
  is_running,      \* HindiPDFPipeline.status.is_running
  should_stop,     \* HindiPDFPipeline._should_stop
  frames,          \* the call every thread is in and its local variables
  completed_at,    \* the processing_attempts a file had when it was marked completed, -1 before
  calls_made,      \* the number of calls of the pipeline made so far
  drive_files,     \* the files of the input folder on Google Drive
  config,          \* Config._config: the values of the validated keys
  config_before,   \* Config._config as it was before the last call of update
  update_outcome   \* Config.update: "none" before a call, "returned", "ValueError"

repairVars == <<rawParts, cleaner, cleaned, recleaned, rstage>>

splitVars == <<blob, parts, splitter>>

extractVars == <<lib, entry, tail, voters, validation, estage>>

pipelineVars ==
  <<pdf_pages, failure, pagesDone, all_voters, next_voter, seen, unique_voters, valid_count,
    quality_scores, pstage>>

entryVars == <<int_limit, entry_parts, entry_text, pattern_no, attempts, entry_result, pestage>>

headerVars == <<header_lines, header_by, header>>

translitVars == <<tr_words, tr_lib, tr_result, tr_stage>>

batchVars == <<pages_text, results, page_num, raised, bstage>>

dupVars == <<entities, unique_entities, next_entity, dstage>>

retryVars == <<max_retries, attempt, calls, last_exception, retry_outcome, retry_stage>>

runVars == <<records, is_running, should_stop, frames, completed_at, calls_made, drive_files>>

configVars == <<config, config_before, update_outcome>>

\* the variables of the machines of one function each
restVars == <<headerVars, translitVars, batchVars, dupVars, retryVars, runVars, configVars>>

headerOthers == <<translitVars, batchVars, dupVars, retryVars, runVars, configVars>>

translitOthers == <<headerVars, batchVars, dupVars, retryVars, runVars, configVars>>

batchOthers == <<headerVars, translitVars, dupVars, retryVars, runVars, configVars>>

dupOthers == <<headerVars, translitVars, batchVars, retryVars, runVars, configVars>>

retryOthers == <<headerVars, translitVars, batchVars, dupVars, runVars, configVars>>

runOthers == <<headerVars, translitVars, batchVars, dupVars, retryVars, configVars>>

configOthers == <<headerVars, translitVars, batchVars, dupVars, retryVars, runVars>>

coreVars == <<repairVars, splitVars, extractVars, pipelineVars, entryVars>>

vars == <<coreVars, restVars>>

RepairIdle ==
  /\ rawParts = <<>>
  /\ cleaner = "none"
  /\ cleaned = <<>>
  /\ recleaned = <<>>
  /\ rstage = "input"

SplitIdle ==
  /\ blob = <<>>
  /\ parts = <<>>
  /\ splitter = "none"

ExtractIdle ==
  /\ lib = "unchanged"
  /\ entry = None
  /\ tail = <<>>
  /\ voters = <<>>
  /\ validation = None
  /\ estage = "input"

PipelineIdle ==
  /\ pdf_pages = 0
  /\ failure = "none"
  /\ pagesDone = 0
  /\ all_voters = <<>>
  /\ next_voter = 1
  /\ seen = {}
  /\ unique_voters = <<>>
  /\ valid_count = 0
  /\ quality_scores = <<>>
  /\ pstage = "pages"

EntryIdle ==
  /\ int_limit = FALSE
  /\ entry_parts = <<>>
  /\ entry_text = <<>>
  /\ pattern_no = 1
  /\ attempts = <<>>
  /\ entry_result = None
  /\ pestage = "input"

HeaderIdle ==
  /\ header_lines = <<>>
  /\ header_by = "none"
  /\ header = None

TranslitIdle ==
  /\ tr_words = <<>>
  /\ tr_lib = "unchanged"
  /\ tr_result = <<>>
  /\ tr_stage = "input"

BatchIdle ==
  /\ pages_text = <<>>
  /\ results = <<>>
  /\ page_num = 1
  /\ raised = {}
  /\ bstage = "input"

DupIdle ==
  /\ entities = <<>>
  /\ unique_entities = <<>>
  /\ next_entity = 1
  /\ dstage = "input"

RetryIdle ==
  /\ max_retries = 0
  /\ attempt = 0
  /\ calls = <<>>
  /\ last_exception = None
  /\ retry_outcome = None
  /\ retry_stage = "loop"

\* the ids of the files of the input folder
Files == {"f1", "f2"}

\* the threads that call the pipeline
Threads == {1, 2}

\* the results dict of reprocess_failed_files before the loop
NoResults == [total_files |-> 0, processed |-> 0, failed |-> 0, skipped |-> 0]

\* a thread that is in no call: call is the method it is in, pc the place
\* in it, file the file_id at hand, marked whether process_single_file has
\* called mark_processing_started, downloads the number of calls of
\* download_file, step_error the step that raised, ret what
\* process_single_file returned, failed_files and results the locals of
\* reprocess_failed_files, completed the files marked completed during the
\* call, result the status of the dict run_single_cycle returned
IdleFrame ==
  [call |-> "idle", pc |-> "idle", file |-> "", marked |-> FALSE, downloads |-> 0,
   step_error |-> "", ret |-> "none", max_attempts |-> 0, failed_files |-> <<>>,
   results |-> NoResults, completed |-> {}, result |-> "none"]

RunIdle ==
  /\ records = [f \in Files |-> None]
  /\ is_running = FALSE
  /\ should_stop = FALSE
  /\ frames = [t \in Threads |-> IdleFrame]
  /\ completed_at = [f \in Files |-> -1]
  /\ calls_made = 0
  /\ drive_files = {}

ConfigIdle ==
  /\ config = None
  /\ config_before = None
  /\ update_outcome = "none"

RestIdle == HeaderIdle /\ TranslitIdle /\ BatchIdle /\ DupIdle /\ RetryIdle /\ RunIdle /\ ConfigIdle

HeaderOthersIdle == TranslitIdle /\ BatchIdle /\ DupIdle /\ RetryIdle /\ RunIdle /\ ConfigIdle

TranslitOthersIdle == HeaderIdle /\ BatchIdle /\ DupIdle /\ RetryIdle /\ RunIdle /\ ConfigIdle

BatchOthersIdle == HeaderIdle /\ TranslitIdle /\ DupIdle /\ RetryIdle /\ RunIdle /\ ConfigIdle

DupOthersIdle == HeaderIdle /\ TranslitIdle /\ BatchIdle /\ RetryIdle /\ RunIdle /\ ConfigIdle

RetryOthersIdle == HeaderIdle /\ TranslitIdle /\ BatchIdle /\ DupIdle /\ RunIdle /\ ConfigIdle

RunOthersIdle == HeaderIdle /\ TranslitIdle /\ BatchIdle /\ DupIdle /\ RetryIdle /\ ConfigIdle

ConfigOthersIdle == HeaderIdle /\ TranslitIdle /\ BatchIdle /\ DupIdle /\ RetryIdle /\ RunIdle

CoreIdle == RepairIdle /\ SplitIdle /\ ExtractIdle /\ PipelineIdle /\ EntryIdle

(***************************************************************************)
(* Glyph repair as a state machine: a text is put together from pieces of  *)
(* extracted PDF text, cleaned, and the result cleaned once more.          *)
(***************************************************************************)
MaxFragments == 4

\* pieces of extracted text: placeholders (whole and cut), mapped and unmapped
\* codes, consonants, a vowel sign and a space
Fragments ==
  { CidOpen,
    Cid(<<"9">>),
    <<"9">>,
    <<")">>,
    Cid(<<"2", "0">>),
    Cid(<<"3">>),
    <<"ka">>,
    <<"+aa">>,
    <<" ">> }

RepairInit == RepairIdle /\ SplitIdle /\ ExtractIdle /\ PipelineIdle /\ EntryIdle /\ RestIdle

AppendFragment ==
  /\ rstage = "input"
  /\ Len(rawParts) < MaxFragments
  /\ \E f \in Fragments : rawParts' = Append(rawParts, f)
  /\ UNCHANGED <<cleaner, cleaned, recleaned, rstage, splitVars, extractVars, pipelineVars, entryVars, restVars>>

\* cleaned = processor.clean_cid_text(text)
Clean ==
  /\ rstage = "input"
  /\ cleaner' = "final"
  /\ cleaned' = clean_cid_text(Flatten(rawParts))
  /\ rstage' = "cleaned"
  /\ UNCHANGED <<rawParts, recleaned, splitVars, extractVars, pipelineVars, entryVars, restVars>>

\* the same text through VoterDataProcessor.clean_cid_text
CleanPdf ==
  /\ rstage = "input"
  /\ cleaner' = "pdf"
  /\ cleaned' = pdf_clean_cid_text(Flatten(rawParts))
  /\ rstage' = "cleaned"
  /\ UNCHANGED <<rawParts, recleaned, splitVars, extractVars, pipelineVars, entryVars, restVars>>

\* the cleaned text is cleaned again (process_pdf_file cleans a page, and
\* extract_voters_from_line cleans each of its lines again)
CleanAgain ==
  /\ rstage = "cleaned"
  /\ recleaned' = IF cleaner = "final" THEN clean_cid_text(cleaned)
                  ELSE pdf_clean_cid_text(cleaned)
  /\ rstage' = "recleaned"
  /\ UNCHANGED <<rawParts, cleaner, cleaned, splitVars, extractVars, pipelineVars, entryVars, restVars>>

RepairNext == AppendFragment \/ Clean \/ CleanPdf \/ CleanAgain

SpecRepair == RepairInit /\ [][RepairNext]_vars

\* C6: glyph repair is idempotent, clean_cid_text(clean_cid_text(x)) = clean_cid_text(x)
RepairIdempotent ==
  (rstage = "recleaned" /\ cleaner = "final") => recleaned = cleaned

\* C7: after clean_cid_text the text holds no (cid:<digits>) token
NoCidTokenLeft ==
  rstage = "cleaned" => ~HasCidToken(cleaned)

(***************************************************************************)
(* Name splitting as a state machine: a name blob is put together word by  *)
(* word and split, by parse_middle_text or by the helper split_names.      *)
(***************************************************************************)
MaxNameWords == 4

\* given names without an indicator, and names that contain one
\* (सिंह, राजकुमार holds कुमार)
NameWords ==
  { <<"ma", "+o", "ha", "na">>,
    <<"vA", "ma", "+i", "ta">>,
    <<"sha", "+virama", "ya", "+aa", "ma">>,
    SINGH,
    <<"ra", "+aa", "ja">> \o KUMAR }

SplitInit == RepairIdle /\ SplitIdle /\ ExtractIdle /\ PipelineIdle /\ EntryIdle /\ RestIdle

AppendWord ==
  /\ splitter = "none"
  /\ Len(blob) < MaxNameWords
  /\ \E w \in NameWords : blob' = Append(blob, w)
  /\ UNCHANGED <<parts, splitter, repairVars, extractVars, pipelineVars, entryVars, restVars>>

\* parse_middle_text, "Split names intelligently"
SplitInLine ==
  /\ splitter = "none"
  /\ Len(blob) >= 1
  /\ parts' = NameSplit(blob)
  /\ splitter' = "parse_middle_text"
  /\ UNCHANGED <<blob, repairVars, extractVars, pipelineVars, entryVars, restVars>>

\* voter_name, father_name = split_names(name_words)
SplitNames ==
  /\ splitter = "none"
  /\ parts' = split_names(blob)
  /\ splitter' = "split_names"
  /\ UNCHANGED <<blob, repairVars, extractVars, pipelineVars, entryVars, restVars>>

SplitNext == AppendWord \/ SplitInLine \/ SplitNames

SpecSplit == SplitInit /\ [][SplitNext]_vars

NoIndicator(words) == \A k \in 1..Len(words) : ~HasIndicator(words[k])

\* the words split after the first k
SplitAfter(words, k) == <<SubSeq(words, 1, k), SubSeq(words, k + 1, Len(words))>>

\* C8: without an indicator word, a blob of two or more words is split in
\* the middle (after the first floor(n/2) words); a blob of fewer than two
\* words is the voter name, and the father name is empty
DefaultSplitInMiddle ==
  (splitter # "none" /\ NoIndicator(blob)) =>
    IF Len(blob) < 2 THEN parts = <<blob, <<>>>>
    ELSE parts = SplitAfter(blob, Len(blob) \div 2)

\* C8 as the specification words it: without an indicator word, a blob of
\* two or more words is split after its first word
DefaultSplitAfterFirstWord ==
  (splitter # "none" /\ NoIndicator(blob)) =>
    IF Len(blob) < 2 THEN parts = <<blob, <<>>>>
    ELSE parts = SplitAfter(blob, 1)

\* a four-word blob without indicator was split two and two
FourWordsSplitInMiddle ==
  /\ splitter = "parse_middle_text"
  /\ Len(blob) = 4
  /\ NoIndicator(blob)
  /\ Len(parts[1]) = 2

\* the positions from the second word on that hold an indicator word
LaterIndicators(words) == {i \in 2..Len(words) : HasIndicator(words[i])}

\* C9: parse_middle_text splits a two-word blob one and one; in a blob of
\* three or more words the scan starts at the second word, and the first
\* indicator word it meets is the boundary: the words before it are the
\* voter name, it and the words after it the father name
BoundaryAtFirstLaterIndicator ==
  splitter = "parse_middle_text" =>
    /\ Len(blob) = 2 => parts = SplitAfter(blob, 1)
    /\ (Len(blob) >= 3 /\ LaterIndicators(blob) # {}) =>
         parts = SplitAfter(blob, Min(LaterIndicators(blob)) - 1)

\* C9 as the specification words it: the scan starts at the first word, and
\* the first indicator word of the blob is the boundary
BoundaryAtFirstIndicator ==
  (splitter = "parse_middle_text" /\ ~NoIndicator(blob)) =>
    parts = SplitAfter(blob, Min({i \in 1..Len(blob) : HasIndicator(blob[i])}) - 1)

\* a blob whose first and third word are indicator words and whose second is
\* not was split before the third
SplitBeforeThirdWord ==
  /\ splitter = "parse_middle_text"
  /\ Len(blob) = 3
  /\ HasIndicator(blob[1])
  /\ ~HasIndicator(blob[2])
  /\ HasIndicator(blob[3])
  /\ Len(parts[1]) = 2

(***************************************************************************)
(* Extraction as a state machine: a line that starts with one entry is     *)
(* handed to extract_voters_from_line, and the record of the entry is      *)
(* handed to validate_voter_record.                                        *)
(***************************************************************************)
MaxAge == 125

RECURSIVE Decimal(_)
\* the decimal digits of n
Decimal(n) ==
  LET d == <<"0", "1", "2", "3", "4", "5", "6", "7", "8", "9">>[(n % 10) + 1]
  IN IF n < 10 THEN <<d>> ELSE Decimal(n \div 10) \o <<d>>

KRISHNAA == <<"ka", "+vocalicr", "ssa", "+virama", "nna", "+aa">>
SHYAM    == <<"sha", "+virama", "ya", "+aa", "ma">>
MOHAN    == <<"ma", "+o", "ha", "na">>
AMIT     == <<"vA", "ma", "+i", "ta">>
HARI     == <<"ha", "ra", "+i">>
RAJKUMAR == <<"ra", "+aa", "ja">> \o KUMAR
RAMPAL   == RAM \o <<"pa", "+aa", "la">>
NAGAR    == <<"na", "ga", "ra">>
SUNITA   == <<"sa", "+u", "na", "+i", "ta", "+aa">>
PUR      == <<"pa", "+u", "ra">>

\* the words between serial and marker: an area name and two names of the
\* curated list; three names of the curated list; the words of the entry
\* "49 कृष्णा राजकुमार रामपाल सिसंह पु 46"
CuratedBlobs == { <<KRISHNAA, SHYAM, MOHAN>>, <<HARI, MOHAN, AMIT>> }

EntryBlobs == CuratedBlobs \cup { <<KRISHNAA, RAJKUMAR, RAMPAL, SISANGH>> }

\* the tokens at the gender position: the markers of voter_pattern, and
\* महिला, पुर and M
EntryMarkers == GenderMarkers \cup {MAHILA, PUR, <<"M">>}

\* " 50 नगर सुनिता राजकुमार म 43"
SecondEntry ==
  <<" ">> \o Join(<<(<<"5", "0">>), NAGAR, SUNITA, RAJKUMAR, MA, <<"4", "3">>>>)

\* " 50 हरि मोहन म 17 51 अमित हरि पु 30": an entry under age and one more
UnderageAndThird ==
  <<" ">> \o Join(<<(<<"5", "0">>), HARI, MOHAN, MA, <<"1", "7">>,
                    (<<"5", "1">>), AMIT, HARI, PU, <<"3", "0">>>>)

BoundaryAges == {17, 18, 46, 120, 121}

\* every age with a plain entry, and every marker and blob with the ages
\* around the limits
Entries ==
  { [sr_no |-> <<"4", "9">>, words |-> <<KRISHNAA, SHYAM, MOHAN>>, marker |-> g, age |-> a] :
      g \in {PU, MA}, a \in 0..MaxAge }
  \cup
  { [sr_no |-> <<"4", "9">>, words |-> w, marker |-> g, age |-> a] :
      w \in EntryBlobs, g \in EntryMarkers, a \in BoundaryAges }

EntryText(e) == Join(<<e.sr_no>> \o e.words \o <<e.marker, Decimal(e.age)>>)

ExtractInit ==
  /\ RepairIdle
  /\ SplitIdle
  /\ lib \in LibraryOutcomes
  /\ entry \in Entries
  /\ tail \in {<<>>, SecondEntry, UnderageAndThird}
  /\ voters = <<>>
  /\ validation = None
  /\ estage = "input"
  /\ PipelineIdle
  /\ EntryIdle
  /\ RestIdle

\* voters = processor.extract_voters_from_line(line, header_info)
ExtractLine ==
  /\ estage = "input"
  /\ \E line \in {EntryText(entry) \o tail} : voters' = extract_voters_from_line(line, lib)
  /\ estage' = "extracted"
  /\ UNCHANGED <<lib, entry, tail, validation, repairVars, splitVars, pipelineVars, entryVars, restVars>>

\* the record parse_middle_text builds for the entry, handed to
\* validate_voter_record
ValidateEntry ==
  /\ estage = "input"
  /\ \E record \in {parse_middle_text(entry.sr_no, Join(entry.words), entry.marker, entry.age, lib)} :
       /\ record # None
       /\ validation' = validate_voter_record(record)
  /\ estage' = "validated"
  /\ UNCHANGED <<lib, entry, tail, voters, repairVars, splitVars, pipelineVars, entryVars, restVars>>

ExtractNext == ExtractLine \/ ValidateEntry

SpecExtract == ExtractInit /\ [][ExtractNext]_vars

\* the entry is well formed but for its age: a recognized marker, names of
\* the curated list
WellFormed(e) == e.marker \in GenderMarkers /\ e.words \in CuratedBlobs

\* the records the line gave for the serial of its first entry
EntryRecords == SelectSeq(voters, LAMBDA r : r.srNo = entry.sr_no)

\* C4: a well-formed entry is accepted by extract_voters_from_line, and its
\* record by validate_voter_record, exactly when 18 <= age <= 120
AgeDomainInclusive ==
  WellFormed(entry) =>
    /\ estage = "extracted" =>
         IF 18 <= entry.age /\ entry.age <= 120
         THEN Len(EntryRecords) = 1 /\ EntryRecords[1].age = entry.age
         ELSE EntryRecords = <<>>
    /\ estage = "validated" =>
         (validation.valid <=> (18 <= entry.age /\ entry.age <= 120))

\* an entry of age 120 gave a record
Age120Accepted ==
  /\ estage = "extracted"
  /\ WellFormed(entry)
  /\ entry.age = 120
  /\ Len(EntryRecords) = 1

\* C5: an entry with the marker पु or पुरुष gives a record of gender M, one
\* with म, स्त्री or फ a record of gender F, and an entry with any other token
\* at the gender position gives no record
GenderNormalized ==
  estage = "extracted" =>
    /\ \A k \in 1..Len(EntryRecords) :
         /\ entry.marker \in {PU, PURUSH} => EntryRecords[k].gender = "M"
         /\ entry.marker \in {MA, STRI, PHA} => EntryRecords[k].gender = "F"
    /\ entry.marker \notin {PU, PURUSH, MA, STRI, PHA} => EntryRecords = <<>>
    /\ (entry.marker \in {PU, PURUSH, MA, STRI, PHA} /\ 18 <= entry.age /\ entry.age <= 120)
         => Len(EntryRecords) = 1

\* an entry with the marker स्त्री gave a record of gender F
StriGivesF ==
  /\ estage = "extracted"
  /\ entry.marker = STRI
  /\ Len(EntryRecords) = 1
  /\ EntryRecords[1].gender = "F"

\* the entry the line starts with is a match of voter_pattern with an age in
\* the range
FirstInRange == entry.marker \in GenderMarkers /\ 18 <= entry.age /\ entry.age <= 120

\* serial and age of the matches of the line whose age is in the range, from
\* left to right
InRangeMatches ==
  (IF FirstInRange THEN << <<entry.sr_no, entry.age>> >> ELSE <<>>)
  \o (IF tail = SecondEntry THEN << <<(<<"5", "0">>), 43>> >>
      ELSE IF tail = UnderageAndThird THEN << <<(<<"5", "1">>), 30>> >>
      ELSE <<>>)

\* C11: a match whose age is outside 18..120 is dropped and the scan goes on:
\* the records of a line are those of its matches with an age in the range,
\* from left to right, also when matches before them were dropped
DiscardedAndContinued ==
  estage = "extracted" =>
    [k \in 1..Len(voters) |-> <<voters[k].srNo, voters[k].age>>] = InRangeMatches

\* the first and the second entry of a line were dropped, the third gave
\* the only record
ThirdReadAfterTwoDropped ==
  /\ estage = "extracted"
  /\ entry.age = 121
  /\ WellFormed(entry)
  /\ tail = UnderageAndThird
  /\ Len(voters) = 1
  /\ voters[1].srNo = <<"5", "1">>

\* "49 कृष्णा राजकुमार रामपाल सिसंह पु 46"
ExampleEntry ==
  [sr_no |-> <<"4", "9">>, words |-> <<KRISHNAA, RAJKUMAR, RAMPAL, SISANGH>>,
   marker |-> PU, age |-> 46]

\* the line is "49 कृष्णा राजकुमार रामपाल सिसंह पु 46 50 नगर सुनिता राजकुमार म 43"
ExampleLineExtracted == estage = "extracted" /\ entry = ExampleEntry /\ tail = SecondEntry

RECURSIVE MatchesFrom(_, _)
\* the matches of voter_pattern in s from pos on, each with where it starts
MatchesFrom(s, pos) ==
  LET starts == {i \in pos..Len(s) : MatchAt(s, i).found}
      m == NextMatch(s, pos)
  IN IF ~m.found THEN <<>> ELSE << <<Min(starts), m>> >> \o MatchesFrom(s, m.end)

\* C12: the line "49 कृष्णा राजकुमार रामपाल सिसंह पु 46 50 नगर सुनिता राजकुमार म 43"
\* has exactly two matches, one after the other: serial 49, marker पु, age 46
\* with the words of the first entry as its middle text, and serial 50,
\* marker म, age 43 with the words of the second; they give the records
\* 49 (M, 46) and 50 (F, 43), in this order
ExampleLineSegmented ==
  ExampleLineExtracted =>
    \E line \in {clean_cid_text(EntryText(entry) \o tail)} :
    \E ms \in {MatchesFrom(line, 1)} :
      /\ Len(ms) = 2
      /\ ms[1][1] = 1
      /\ ms[1][2].end <= ms[2][1]
      /\ ms[1][2].sr_no = <<"4", "9">>
      /\ ms[1][2].middle_text = clean_cid_text(Join(entry.words))
      /\ ms[1][2].gender = PU
      /\ ms[1][2].age_str = <<"4", "6">>
      /\ ms[2][2].sr_no = <<"5", "0">>
      /\ ms[2][2].middle_text = Join(<<NAGAR, SUNITA, RAJKUMAR>>)
      /\ ms[2][2].gender = MA
      /\ ms[2][2].age_str = <<"4", "3">>
      /\ ms[2][2].end = Len(line) + 1
      /\ [k \in 1..Len(voters) |-> <<voters[k].srNo, voters[k].gender, voters[k].age>>]
           = << <<(<<"4", "9">>), "M", 46>>, <<(<<"5", "0">>), "F", 43>> >>

\* the example line gave two records
ExampleLineGaveTwo == ExampleLineExtracted /\ Len(voters) = 2

(***************************************************************************)
(* The document pipeline (FinalVoterDataProcessor.process_pdf_file): the   *)
(* pages are read one by one, the rows of their tables and their text give *)
(* records, and the records are validated and deduplicated.  The fields    *)
(* sourceFile and nagarNigam are the same in every record of a document    *)
(* and are left out.                                                       *)
(***************************************************************************)
MaxPages == 2

\* [clean_cid_text(str(cell)) for the cells that are not empty], without
\* the results that are empty
CleanedCells(row) ==
  SelectSeq([k \in 1..Len(row) |-> IF row[k] = <<>> THEN <<>> ELSE clean_cid_text(row[k])],
            LAMBDA cell : cell # <<>>)

\* the records of one row of a table
RowVoters(row, lib_outcome) ==
  IF row = <<>> \/ \A k \in 1..Len(row) : row[k] = <<>> THEN <<>>
  ELSE CHOOSE found \in
         { IF cleaned_cells = <<>> THEN <<>>
           ELSE parse_voter_data(Join(cleaned_cells), lib_outcome) :
           cleaned_cells \in {CleanedCells(row)} } : TRUE

RECURSIVE RowsVoters(_, _)
RowsVoters(rows, lib_outcome) ==
  IF rows = <<>> THEN <<>>
  ELSE CHOOSE found \in
         { RowVoters(first, lib_outcome) \o RowsVoters(rest, lib_outcome) :
           first \in {Head(rows)}, rest \in {Tail(rows)} } : TRUE

RECURSIVE TablesVoters(_, _)
\* the records of the tables of a page: every row but the first of each table
TablesVoters(tables, lib_outcome) ==
  IF tables = <<>> THEN <<>>
  ELSE CHOOSE found \in
         { (IF first = <<>> THEN <<>> ELSE RowsVoters(Tail(first), lib_outcome))
             \o TablesVoters(rest, lib_outcome) :
           first \in {Head(tables)}, rest \in {Tail(tables)} } : TRUE

\* the records of the text of a page
TextVoters(text, lib_outcome) ==
  IF text = <<>> THEN <<>>
  ELSE CHOOSE found \in
         { parse_voter_data(cleaned_text, lib_outcome) :
           cleaned_text \in {clean_cid_text(text)} } : TRUE

\* "49 कृष्णा श्याम मोहन पु 46": serial, area, voter, father, marker, age
EntryLine(sr_no, voter, father, marker, age) ==
  Join(<<sr_no, KRISHNAA, voter, father, marker, Decimal(age)>>)

\* a one-letter name
KA_LETTER == <<"ka">>

\* Page texts.  The first three give records with the key (49, shyam): a
\* valid one, one whose father name the library does not transliterate, and
\* a valid one with another father, marker and age.  The fourth has the key
\* (49, mohan); the fifth the key (50, shyam), followed by an entry of
\* age 17; the sixth has a voter name of one letter.
PageTexts ==
  { EntryLine(<<"4", "9">>, SHYAM, MOHAN, PU, 46),
    EntryLine(<<"4", "9">>, SHYAM, RAJKUMAR, PU, 46),
    EntryLine(<<"4", "9">>, SHYAM, AMIT, MA, 30),
    EntryLine(<<"4", "9">>, MOHAN, SHYAM, PU, 46),
    EntryLine(<<"5", "0">>, SHYAM, MOHAN, PU, 46) \o <<"\n">>
      \o EntryLine(<<"5", "1">>, HARI, AMIT, MA, 17),
    EntryLine(<<"4", "9">>, KA_LETTER, MOHAN, PU, 46) }

HeaderRow == << <<"S", "r">>, <<"N", "a", "m", "e">> >>

\* the tables of a page: none, or one table with a header row, a row that
\* holds the entry (49, shyam) in cells, one of them empty, and an empty row
PageTables ==
  { <<>>,
    << << HeaderRow,
          << <<"4", "9">>, <<>>, Join(<<KRISHNAA, SHYAM, MOHAN>>), PU, <<"4", "6">> >>,
          << <<>>, <<>> >> >> >> }

PipelineInit ==
  /\ RepairIdle
  /\ SplitIdle
  /\ lib \in LibraryOutcomes
  /\ entry = None
  /\ tail = <<>>
  /\ voters = <<>>
  /\ validation = None
  /\ estage = "input"
  /\ pdf_pages \in 0..MaxPages
  /\ failure = "none"
  /\ pagesDone = 0
  /\ all_voters = <<>>
  /\ next_voter = 1
  /\ seen = {}
  /\ unique_voters = <<>>
  /\ valid_count = 0
  /\ quality_scores = <<>>
  /\ pstage = "pages"
  /\ EntryIdle
  /\ RestIdle

PipelineFrame == UNCHANGED <<repairVars, splitVars, extractVars, entryVars, restVars>>

\* one pass of the loop over pdf.pages
ProcessPage ==
  /\ pstage = "pages"
  /\ pagesDone < pdf_pages
  /\ \E tables \in PageTables, text \in PageTexts :
       all_voters' = all_voters \o TablesVoters(tables, lib) \o TextVoters(text, lib)
  /\ pagesDone' = pagesDone + 1
  /\ UNCHANGED <<pdf_pages, failure, next_voter, seen, unique_voters, valid_count, quality_scores, pstage>>
  /\ PipelineFrame

\* the try block raises: pdfplumber.open before a page is read, the read of
\* the tables of the next page, or the read of its text after its tables
PdfError ==
  /\ pstage = "pages"
  /\ \/ /\ pagesDone = 0
        /\ failure' = "open"
        /\ UNCHANGED all_voters
     \/ /\ pagesDone < pdf_pages
        /\ failure' = "tables"
        /\ UNCHANGED all_voters
     \/ /\ pagesDone < pdf_pages
        /\ failure' = "text"
        /\ \E tables \in PageTables : all_voters' = all_voters \o TablesVoters(tables, lib)
  /\ pstage' = "dedup"
  /\ UNCHANGED <<pdf_pages, pagesDone, next_voter, seen, unique_voters, valid_count, quality_scores>>
  /\ PipelineFrame

\* the last page is read
PagesRead ==
  /\ pstage = "pages"
  /\ pagesDone = pdf_pages
  /\ pstage' = "dedup"
  /\ UNCHANGED <<pdf_pages, failure, pagesDone, all_voters, next_voter, seen, unique_voters, valid_count, quality_scores>>
  /\ PipelineFrame

Key(voter) == <<voter.srNo, voter.voterNameLower>>

\* a loop body that keeps every valid record
DedupStepKeepAll ==
  /\ pstage = "dedup"
  /\ next_voter <= Len(all_voters)
  /\ \E voter \in {all_voters[next_voter]} : \E check \in {validate_voter_record(voter)} :
       /\ quality_scores' = Append(quality_scores, check.quality_score)
       /\ IF check.valid
          THEN /\ seen' = seen \cup {Key(voter)}
               /\ unique_voters' = Append(unique_voters, voter)
               /\ valid_count' = valid_count + 1
          ELSE UNCHANGED <<seen, unique_voters, valid_count>>
  /\ next_voter' = next_voter + 1
  /\ UNCHANGED <<pdf_pages, failure, pagesDone, all_voters, pstage>>
  /\ PipelineFrame

\* a loop body whose key is the serial alone
DedupStepBySerial ==
  /\ pstage = "dedup"
  /\ next_voter <= Len(all_voters)
  /\ \E voter \in {all_voters[next_voter]} : \E check \in {validate_voter_record(voter)} :
       /\ quality_scores' = Append(quality_scores, check.quality_score)
       /\ IF check.valid /\ voter.srNo \notin seen
          THEN /\ seen' = seen \cup {voter.srNo}
               /\ unique_voters' = Append(unique_voters, voter)
               /\ valid_count' = valid_count + 1
          ELSE UNCHANGED <<seen, unique_voters, valid_count>>
  /\ next_voter' = next_voter + 1
  /\ UNCHANGED <<pdf_pages, failure, pagesDone, all_voters, pstage>>
  /\ PipelineFrame

\* a loop body that keeps a record for its quality score
DedupStepByScore ==
  /\ pstage = "dedup"
  /\ next_voter <= Len(all_voters)
  /\ \E voter \in {all_voters[next_voter]} : \E check \in {validate_voter_record(voter)} :
       /\ quality_scores' = Append(quality_scores, check.quality_score)
       /\ IF check.quality_score >= 90 /\ Key(voter) \notin seen
          THEN /\ seen' = seen \cup {Key(voter)}
               /\ unique_voters' = Append(unique_voters, voter)
               /\ valid_count' = valid_count + 1
          ELSE UNCHANGED <<seen, unique_voters, valid_count>>
  /\ next_voter' = next_voter + 1
  /\ UNCHANGED <<pdf_pages, failure, pagesDone, all_voters, pstage>>
  /\ PipelineFrame

\* one pass of the loop 'for voter in all_voters'
DedupStep ==
  /\ pstage = "dedup"
  /\ next_voter <= Len(all_voters)
  /\ \E voter \in {all_voters[next_voter]} : \E check \in {validate_voter_record(voter)} :
       /\ quality_scores' = Append(quality_scores, check.quality_score)
       /\ IF check.valid /\ Key(voter) \notin seen
          THEN /\ seen' = seen \cup {Key(voter)}
               /\ unique_voters' = Append(unique_voters, voter)
               /\ valid_count' = valid_count + 1
          ELSE UNCHANGED <<seen, unique_voters, valid_count>>
  /\ next_voter' = next_voter + 1
  /\ UNCHANGED <<pdf_pages, failure, pagesDone, all_voters, pstage>>
  /\ PipelineFrame

\* return unique_voters
Return ==
  /\ pstage = "dedup"
  /\ next_voter > Len(all_voters)
  /\ pstage' = "returned"
  /\ UNCHANGED <<pdf_pages, failure, pagesDone, all_voters, next_voter, seen, unique_voters, valid_count, quality_scores>>
  /\ PipelineFrame

PipelineNext == ProcessPage \/ PdfError \/ PagesRead \/ DedupStep \/ Return

SpecPipeline == PipelineInit /\ [][PipelineNext]_vars

\* C17: process_pdf_file never aborts in the middle of a document: when the
\* read of one page fails, the pages after it are still processed, so every
\* page but the failed one has been read when the function returns
LaterPagesProcessed ==
  (pstage = "returned" /\ failure \in {"tables", "text"})
    => pagesDone = pdf_pages - 1

Valid(voter) == validate_voter_record(voter).valid

\* the positions of all_voters that hold the first valid record of their key
FirstValid ==
  { i \in 1..Len(all_voters) :
      /\ Valid(all_voters[i])
      /\ \A h \in 1..(i - 1) :
           Valid(all_voters[h]) =>
             \/ all_voters[h].srNo # all_voters[i].srNo
             \/ all_voters[h].voterNameLower # all_voters[i].voterNameLower }

\* C1: the returned list holds no two records with the same
\* (srNo, voterNameLower), and every record of it is the earliest valid
\* extracted record of its key
UniqueFirstKept ==
  pstage = "returned" =>
    /\ \A i, j \in 1..Len(unique_voters) :
         ( /\ unique_voters[i].srNo = unique_voters[j].srNo
           /\ unique_voters[i].voterNameLower = unique_voters[j].voterNameLower ) => i = j
    /\ \A j \in 1..Len(unique_voters) :
         \E i \in FirstValid : all_voters[i] = unique_voters[j]

\* two valid records of one key, the second different from the first, were
\* extracted after a record of that key that is not valid, and the first
\* valid one was returned
FirstOfThreeKept ==
  /\ pstage = "returned"
  /\ \E h, i, j \in 1..Len(all_voters) :
       /\ h < i /\ i < j
       /\ ~Valid(all_voters[h]) /\ Valid(all_voters[i]) /\ Valid(all_voters[j])
       /\ Key(all_voters[h]) = Key(all_voters[i])
       /\ Key(all_voters[i]) = Key(all_voters[j])
       /\ all_voters[i] # all_voters[j]
       /\ \E k \in 1..Len(unique_voters) : unique_voters[k] = all_voters[i]

\* C2: every valid extracted record has a record of its key in the returned
\* list, the returned records stand in the order of extraction, and nothing
\* but a later record of a key already kept is removed
NoOverDeletion ==
  pstage = "returned" =>
    /\ \A i \in 1..Len(all_voters) :
         Valid(all_voters[i]) =>
           \E k \in 1..Len(unique_voters) :
             /\ unique_voters[k].srNo = all_voters[i].srNo
             /\ unique_voters[k].voterNameLower = all_voters[i].voterNameLower
    /\ Len(unique_voters) = Cardinality(FirstValid)
    /\ \A i, j \in FirstValid :
         i < j =>
           \E k, l \in 1..Len(unique_voters) :
             k < l /\ unique_voters[k] = all_voters[i] /\ unique_voters[l] = all_voters[j]

\* two valid records with the same serial and different names were both
\* returned
SameSerialBothKept ==
  /\ pstage = "returned"
  /\ \E k, l \in 1..Len(unique_voters) :
       /\ k < l
       /\ unique_voters[k].srNo = unique_voters[l].srNo
       /\ unique_voters[k].voterNameLower # unique_voters[l].voterNameLower

\* the record invariant: a Hindi name of two or more characters, an age of
\* 18 to 120, a gender M or F
RecordInvariant(voter) ==
  /\ voter.voterNameHindi # <<>>
  /\ Len(voter.voterNameHindi) >= 2
  /\ voter.age \in 18..120
  /\ voter.gender \in {"M", "F"}

\* C3: every record that is returned, and every record that is extracted,
\* satisfies the record invariant
RecordsWellFormed ==
  /\ \A k \in 1..Len(unique_voters) : RecordInvariant(unique_voters[k])
  /\ \A i \in 1..Len(all_voters) : RecordInvariant(all_voters[i])

\* two pages were read, one of them the page whose entry 50 is followed by
\* the entry 51 of age 17: the record 50 was extracted and returned, and no
\* record 51 was extracted
Age17EntryRead ==
  /\ pstage = "returned"
  /\ pagesDone = 2
  /\ \E k \in 1..Len(unique_voters) : unique_voters[k].srNo = <<"5", "0">>
  /\ \A i \in 1..Len(all_voters) : all_voters[i].srNo # <<"5", "1">>

\* the positions of all_voters the loop of process_pdf_file has looked at
Looked == 1..(next_voter - 1)

\* C14: a record takes part in deduplication exactly when
\* validate_voter_record finds no issue with it: the keys seen are the keys
\* of the valid records looked at, every record kept is valid, and the
\* quality score max(0, 100 - 10 * issues) is only recorded
InclusionByValidOnly ==
  /\ seen = {Key(all_voters[i]) : i \in {j \in Looked : Issues(all_voters[j]) = <<>>}}
  /\ \A k \in 1..Len(unique_voters) : Valid(unique_voters[k])
  /\ valid_count = Len(unique_voters)
  /\ Len(quality_scores) = Cardinality(Looked)
  /\ \A i \in Looked :
       quality_scores[i] = Max({0, 100 - 10 * Len(Issues(all_voters[i]))})

\* a record with one issue and the score 90 was looked at and left out, and
\* no record of its key was kept
Score90LeftOut ==
  /\ pstage = "returned"
  /\ \E i \in Looked :
       /\ Len(Issues(all_voters[i])) = 1
       /\ quality_scores[i] = 90
       /\ Key(all_voters[i]) \notin seen
       /\ \A k \in 1..Len(unique_voters) : unique_voters[k] # all_voters[i]

(***************************************************************************)
(* parse_voter_entry as a state machine: an entry text is put together,    *)
(* cleaned, and the patterns are tried in the order of the list.  Whether  *)
(* int() limits the digits it converts is a property of the interpreter    *)
(* (it does by default from CPython 3.11 on), fixed when the run starts.   *)
(***************************************************************************)
MaxEntryParts == 2

KA_KHA == <<"ka", " ", "kha">>

\* Pieces of an entry text: an entry only the second pattern matches; entries
\* the first pattern matches, with the markers पु and महिला, with an age of
\* Devanagari digits and with an age of 4301 digits; an entry for the second
\* pattern with such an age; names without serial and age; white space.
EntryPieces ==
  { Join(<<<<"1">>, KA_LETTER, PU, <<"3", "0">>>>),
    Join(<<<<"2">>, <<"kha">>, <<"ga">>, PU, <<"3", "0">>>>),
    Join(<<<<"2">>, <<"kha">>, <<"ga">>, MAHILA, <<"3", "0">>>>),
    Join(<<<<"3">>, MOHAN, HARI, PHA, <<"d4", "d6">>>>),
    Join(<<<<"2">>, <<"kha">>, <<"ga">>, PU, <<NINES>>>>),
    Join(<<<<"1">>, KA_LETTER, PU, <<NINES>>>>),
    KA_KHA,
    <<"\t">> }

EntryInit ==
  /\ RepairIdle
  /\ SplitIdle
  /\ ExtractIdle
  /\ PipelineIdle
  /\ RestIdle
  /\ int_limit \in BOOLEAN
  /\ entry_parts = <<>>
  /\ entry_text = <<>>
  /\ pattern_no = 1
  /\ attempts = <<>>
  /\ entry_result = None
  /\ pestage = "input"

EntryFrame == UNCHANGED <<repairVars, splitVars, extractVars, pipelineVars, int_limit, restVars>>

AppendPiece ==
  /\ pestage = "input"
  /\ Len(entry_parts) < MaxEntryParts
  /\ \E p \in EntryPieces : entry_parts' = Append(entry_parts, p)
  /\ UNCHANGED <<entry_text, pattern_no, attempts, entry_result, pestage>>
  /\ EntryFrame

\* entry_text = self.clean_text(entry_text)
CleanEntry ==
  /\ pestage = "input"
  /\ entry_text' = clean_text(Join(entry_parts))
  /\ pestage' = "trying"
  /\ UNCHANGED <<entry_parts, pattern_no, attempts, entry_result>>
  /\ EntryFrame

\* a pass of the loop over patterns in which re.search finds nothing
PatternMisses ==
  /\ pestage = "trying"
  /\ pattern_no <= 2
  /\ ~Search(pattern_no, entry_text).found
  /\ attempts' = Append(attempts, "none")
  /\ pattern_no' = pattern_no + 1
  /\ UNCHANGED <<entry_parts, entry_text, entry_result, pestage>>
  /\ EntryFrame

\* a pass in which the match gives the record: return voter_record
PatternReturns ==
  /\ pestage = "trying"
  /\ pattern_no <= 2
  /\ \E m \in {Search(pattern_no, entry_text)} :
       /\ m.found
       /\ ~IntRaises(m.age, int_limit)
       /\ entry_result' = voter_record(m)
  /\ attempts' = Append(attempts, "record")
  /\ pestage' = "returned"
  /\ UNCHANGED <<entry_parts, entry_text, pattern_no>>
  /\ EntryFrame

\* a pass in which int(age) raises: except Exception ... continue
PatternRaises ==
  /\ pestage = "trying"
  /\ pattern_no <= 2
  /\ \E m \in {Search(pattern_no, entry_text)} :
       /\ m.found
       /\ IntRaises(m.age, int_limit)
  /\ attempts' = Append(attempts, "raised")
  /\ pattern_no' = pattern_no + 1
  /\ UNCHANGED <<entry_parts, entry_text, entry_result, pestage>>
  /\ EntryFrame

\* return None, after the last pattern
ReturnNone ==
  /\ pestage = "trying"
  /\ pattern_no > 2
  /\ entry_result' = None
  /\ pestage' = "returned"
  /\ UNCHANGED <<entry_parts, entry_text, pattern_no, attempts>>
  /\ EntryFrame

EntryNext ==
  \/ AppendPiece
  \/ CleanEntry
  \/ PatternMisses
  \/ PatternReturns
  \/ PatternRaises
  \/ ReturnNone

SpecEntry == EntryInit /\ [][EntryNext]_vars

\* the pattern that gave the record returned, 0 when none did
PatternUsed == IF pestage = "returned" /\ entry_result # None THEN Len(attempts) ELSE 0

(* C10: the patterns are tried from strict to fallback, and no result of   *)
(* the fallback pattern is used for a text the strict pattern matches: a   *)
(* record that the second pattern gave is returned only when the first     *)
(* pattern has no match in the text.                                       *)
FallbackUsedOnlyWithoutStrictMatch ==
  PatternUsed = 2 => ~Search(1, entry_text).found

(***************************************************************************)
(* extract_header_info as a state machine: a page text is put together     *)
(* from lines, and one of the two processors extracts the header from it.  *)
(***************************************************************************)
MaxHeaderLines == 2

\* "जिला 023-गाजियाबाद", "निकाय 1-गाजियाबाद", "वार्ड 3-बाबू कृष्ण नगर",
\* "8-सेंट पॉल स्कूल", "भाग संख्या: 4", and a line without a keyword
HeaderTextLines ==
  { Join(<<ZILA, <<"0", "2", "3", "-">> \o GHAZIABAD>>),
    Join(<<NIKAY, <<"1", "-">> \o GHAZIABAD>>),
    Join(<<WARD, <<"3", "-", "ba", "+aa", "ba", "+uu">>, KRISHNAA, NAGAR>>),
    Join(<<(<<"8", "-", "sa", "+e", "+anusvara", "tta">>), <<"pa", "+candrao", "la">>, SCHOOL>>),
    PART_NUMBER \o <<":", " ", "4">>,
    Join(<<MOHAN, <<"5">>>>) }

RECURSIVE JoinLines(_)
\* '\n'.join(lines)
JoinLines(lines) ==
  IF lines = <<>> THEN <<>>
  ELSE IF Len(lines) = 1 THEN lines[1]
  ELSE lines[1] \o <<"\n">> \o JoinLines(Tail(lines))

HeaderInit == CoreIdle /\ HeaderOthersIdle /\ HeaderIdle

HeaderFrame == UNCHANGED <<coreVars, headerOthers>>

AppendHeaderLine ==
  /\ header_by = "none"
  /\ Len(header_lines) < MaxHeaderLines
  /\ \E l \in HeaderTextLines : header_lines' = Append(header_lines, l)
  /\ UNCHANGED <<header_by, header>>
  /\ HeaderFrame

\* FinalVoterDataProcessor.extract_header_info(text)
ExtractHeader ==
  /\ header_by = "none"
  /\ header' = extract_header_info(JoinLines(header_lines))
  /\ header_by' = "final"
  /\ UNCHANGED header_lines
  /\ HeaderFrame

\* VoterDataProcessor.extract_header_info(text)
ExtractHeaderPdf ==
  /\ header_by = "none"
  /\ header' = pdf_extract_header_info(JoinLines(header_lines))
  /\ header_by' = "pdf"
  /\ UNCHANGED header_lines
  /\ HeaderFrame

HeaderNext == AppendHeaderLine \/ ExtractHeader \/ ExtractHeaderPdf

SpecHeader == HeaderInit /\ [][HeaderNext]_vars

\* the value UNKNOWN-<key> of every key
Unknown ==
  [ district |-> <<"U", "N", "K", "N", "O", "W", "N", "-", "d", "i", "s", "t", "r", "i", "c", "t">>,
    bodyNumber |-> <<"U", "N", "K", "N", "O", "W", "N", "-", "b", "o", "d", "y", "N", "u", "m", "b", "e", "r">>,
    ward |-> <<"U", "N", "K", "N", "O", "W", "N", "-", "w", "a", "r", "d">>,
    pollingCenter |-> <<"U", "N", "K", "N", "O", "W", "N", "-", "p", "o", "l", "l", "i", "n", "g", "C", "e", "n", "t", "e", "r">>,
    partNumber |-> <<"U", "N", "K", "N", "O", "W", "N", "-", "p", "a", "r", "t", "N", "u", "m", "b", "e", "r">>,
    roomNumber |-> <<"U", "N", "K", "N", "O", "W", "N", "-", "r", "o", "o", "m", "N", "u", "m", "b", "e", "r">>,
    sectionNumber |-> <<"U", "N", "K", "N", "O", "W", "N", "-", "s", "e", "c", "t", "i", "o", "n", "N", "u", "m", "b", "e", "r">>,
    locality |-> <<"U", "N", "K", "N", "O", "W", "N", "-", "l", "o", "c", "a", "l", "i", "t", "y">> ]

\* C13: extract_header_info returns all eight keys, and a key whose pattern
\* does not match the page text has the value UNKNOWN-<key>: for the empty
\* page text, in which nothing can match, every key has that value
UnmatchedKeysUnknown ==
  header_by # "none" =>
    /\ DOMAIN header = HeaderKeys
    /\ header_lines = <<>> => \A k \in HeaderKeys : header[k] = Unknown[k]

(***************************************************************************)
(* transliterate_name as a state machine: a name of up to MaxTranslitWords *)
(* words is put together, the library either returns its argument or      *)
(* raises in every call, and the function returns.                        *)
(***************************************************************************)
MaxTranslitWords == 2

\* a word spelled in Latin letters
RAM_LATIN == <<"r", "a", "m">>

\* the words of the names: every key of name_mapping, two words that are no
\* key, and a Latin word
TranslitWords == MappedNames \cup {SUNITA, SINGH, RAM_LATIN}

TranslitInit ==
  /\ CoreIdle /\ TranslitOthersIdle
  /\ tr_words = <<>>
  /\ tr_lib \in LibraryOutcomes
  /\ tr_result = <<>>
  /\ tr_stage = "input"

TranslitFrame == UNCHANGED <<coreVars, translitOthers>>

AppendNameWord ==
  /\ tr_stage = "input"
  /\ Len(tr_words) < MaxTranslitWords
  /\ \E w \in TranslitWords : tr_words' = Append(tr_words, w)
  /\ UNCHANGED <<tr_lib, tr_result, tr_stage>>
  /\ TranslitFrame

\* FinalVoterDataProcessor.transliterate_name(hindi_name)
TransliterateName ==
  /\ tr_stage = "input"
  /\ \E r \in {transliterate_name(Join(tr_words), tr_lib)} : tr_result' = r
  /\ tr_stage' = "returned"
  /\ UNCHANGED <<tr_words, tr_lib>>
  /\ TranslitFrame

TranslitNext == AppendNameWord \/ TransliterateName

SpecTranslit == TranslitInit /\ [][TranslitNext]_vars

\* C15: for every key of the curated name dictionary, transliterate_name
\* returns exactly the curated spelling of that key
CuratedSpellingReturned ==
  (tr_stage = "returned" /\ Len(tr_words) = 1 /\ tr_words[1] \in MappedNames)
    => tr_result = Mapped(tr_words[1])

\* the name has a word in Devanagari that is no key of name_mapping, so the
\* library is called for it
LibraryCalled ==
  \E k \in 1..Len(tr_words) : tr_words[k] \notin MappedNames \cup {RAM_LATIN}

\* C16: transliterate_name returns a string whatever the library does, and
\* when the library raises for a name, the string returned is a partial
\* result and not an empty string that hides the failure
FailureLeavesPartialResult ==
  (tr_stage = "returned" /\ tr_lib = "raises" /\ LibraryCalled)
    => tr_result # <<>>

(***************************************************************************)
(* HindiTextProcessor.batch_process_pages as a state machine.  A           *)
(* StructuredData is the record of its fields entities, raw_text,          *)
(* page_number and processing_method; cleaned_text and the time stamp are  *)
(* left out.  What extract_names and _extract_additional_entities find in  *)
(* a text is a choice among lists of entity types, and for a text that is  *)
(* not empty extract_structured_data may raise instead.                    *)
(***************************************************************************)
MaxBatchPages == 3

SITA == <<"sa", "+ii", "ta", "+aa">>

DEVI == <<"da", "+e", "va", "+ii">>

\* the texts of a page: None, the empty string and two texts
BatchTexts == {None, <<>>, Join(<<RAM, KUMAR>>), Join(<<SITA, DEVI>>)}

\* the entity types found in one text, in the order of the list
EntityTypesFound == {<<>>, <<"name">>, <<"name", "age">>}

\* the test 'not text'
Falsy(text) == text = None \/ text = <<>>

\* HindiTextProcessor.extract_structured_data(text, page_number) when it
\* returns, types being the entities found
extract_structured_data(text, page_number, types) ==
  IF Falsy(text)
  THEN [entities |-> <<>>, raw_text |-> <<>>, page_number |-> page_number,
        processing_method |-> "empty"]
  ELSE [entities |-> [k \in 1..Len(types) |->
                        [entity_type |-> types[k], page_number |-> page_number]],
        raw_text |-> text, page_number |-> page_number,
        processing_method |-> "comprehensive"]

\* the StructuredData of the except branch of batch_process_pages
FailedPage(text, page_number) ==
  [entities |-> <<>>, raw_text |-> IF Falsy(text) THEN <<>> ELSE text,
   page_number |-> page_number, processing_method |-> "failed"]

BatchInit == CoreIdle /\ BatchOthersIdle /\ BatchIdle

BatchFrame == UNCHANGED <<coreVars, batchOthers>>

AppendPageText ==
  /\ bstage = "input"
  /\ Len(pages_text) < MaxBatchPages
  /\ \E text \in BatchTexts : pages_text' = Append(pages_text, text)
  /\ UNCHANGED <<results, page_num, raised, bstage>>
  /\ BatchFrame

\* results = []
BatchStart ==
  /\ bstage = "input"
  /\ bstage' = "loop"
  /\ UNCHANGED <<pages_text, results, page_num, raised>>
  /\ BatchFrame

\* a pass of the loop that stops the loop when extract_structured_data raises
BatchPageRaisesAndStops ==
  /\ bstage = "loop"
  /\ page_num <= Len(pages_text)
  /\ ~Falsy(pages_text[page_num])
  /\ raised' = raised \cup {page_num}
  /\ bstage' = "returned"
  /\ UNCHANGED <<pages_text, results, page_num>>
  /\ BatchFrame

\* a pass of the loop over enumerate(pages_text, 1) in which
\* extract_structured_data returns
BatchPageReturns ==
  /\ bstage = "loop"
  /\ page_num <= Len(pages_text)
  /\ \E types \in EntityTypesFound :
       results' = Append(results, extract_structured_data(pages_text[page_num], page_num, types))
  /\ page_num' = page_num + 1
  /\ UNCHANGED <<pages_text, raised, bstage>>
  /\ BatchFrame

\* a pass of the loop in which extract_structured_data raises
BatchPageRaises ==
  /\ bstage = "loop"
  /\ page_num <= Len(pages_text)
  /\ ~Falsy(pages_text[page_num])
  /\ results' = Append(results, FailedPage(pages_text[page_num], page_num))
  /\ raised' = raised \cup {page_num}
  /\ page_num' = page_num + 1
  /\ UNCHANGED <<pages_text, bstage>>
  /\ BatchFrame

\* return results
BatchReturn ==
  /\ bstage = "loop"
  /\ page_num > Len(pages_text)
  /\ bstage' = "returned"
  /\ UNCHANGED <<pages_text, results, page_num, raised>>
  /\ BatchFrame

BatchNext == AppendPageText \/ BatchStart \/ BatchPageReturns \/ BatchPageRaises \/ BatchReturn

SpecBatch == BatchInit /\ [][BatchNext]_vars

\* C18: batch_process_pages returns exactly one StructuredData per input
\* page, in the order of the pages, the k-th with page_number k; a page for
\* which the extraction raised has an entry without entities and with
\* processing_method 'failed', and the pages after it have their entries too
OneResultPerPage ==
  bstage = "returned" =>
    /\ Len(results) = Len(pages_text)
    /\ \A k \in 1..Len(results) :
         /\ results[k].page_number = k
         /\ results[k].raw_text = (IF Falsy(pages_text[k]) THEN <<>> ELSE pages_text[k])
         /\ k \in raised <=>
              (results[k].entities = <<>> /\ results[k].processing_method = "failed")

\* three pages, the extraction raised for the second, and the third has entities
ThirdPageReadAfterFailure ==
  /\ bstage = "returned"
  /\ Len(pages_text) = 3
  /\ raised = {2}
  /\ Len(results) = 3
  /\ results[2].processing_method = "failed"
  /\ results[3].processing_method = "comprehensive"
  /\ results[3].entities # <<>>

(***************************************************************************)
(* HindiTextProcessor.filter_duplicates as a state machine.  An entity is  *)
(* the record of its fields english_lowercase and confidence, the          *)
(* confidence in hundredths; the threshold is the default 0.8.             *)
(***************************************************************************)
MaxEntities == 3

\* similarity_threshold, in hundredths
SimilarityThreshold == 80

\* the english_lowercase of the entities: 'ram kumar' and 'sita devi' of the
\* test, and three texts over the letters a to f
EntityTexts ==
  { <<"r", "a", "m", " ", "k", "u", "m", "a", "r">>,
    <<"s", "i", "t", "a", " ", "d", "e", "v", "i">>,
    <<"a", "b", "c", "d", "e">>,
    <<"a", "b", "c", "d">>,
    <<"a", "b", "c", "d", "f">> }

Confidences == {70, 90}

Entities == [english_lowercase : EntityTexts, confidence : Confidences]

\* set(text.replace(' ', ''))
CharSet(text) == {text[k] : k \in 1..Len(text)} \ {" "}

\* HindiTextProcessor._calculate_similarity(entity1, entity2) >= threshold,
\* the threshold in hundredths
SimilarAtLeast(entity1, entity2, threshold) ==
  LET text1 == entity1.english_lowercase
      text2 == entity2.english_lowercase
      set1  == CharSet(text1)
      set2  == CharSet(text2)
      intersection == Cardinality(set1 \cap set2)
      union        == Cardinality(set1 \cup set2)
  IN IF text1 = text2 THEN 100 >= threshold
     ELSE IF text1 = <<>> \/ text2 = <<>> THEN 0 >= threshold
     ELSE IF union > 0 THEN 100 * intersection >= threshold * union
     ELSE 0 >= threshold

\* the index of the first entity of unique that is similar to entity, 0 if none
FirstSimilar(entity, unique) ==
  LET hits == {k \in 1..Len(unique) : SimilarAtLeast(entity, unique[k], SimilarityThreshold)}
  IN IF hits = {} THEN 0 ELSE Min(hits)

\* list.remove(x): the list without its first element equal to x
Remove(list, x) ==
  LET k == Min({j \in 1..Len(list) : list[j] = x})
  IN SubSeq(list, 1, k - 1) \o SubSeq(list, k + 1, Len(list))

DupInit == CoreIdle /\ DupOthersIdle /\ DupIdle

DupFrame == UNCHANGED <<coreVars, dupOthers>>

AppendEntity ==
  /\ dstage = "input"
  /\ Len(entities) < MaxEntities
  /\ \E e \in Entities : entities' = Append(entities, e)
  /\ UNCHANGED <<unique_entities, next_entity, dstage>>
  /\ DupFrame

\* 'if not entities: return []', or unique_entities = []
DupStart ==
  /\ dstage = "input"
  /\ dstage' = IF entities = <<>> THEN "returned" ELSE "loop"
  /\ UNCHANGED <<entities, unique_entities, next_entity>>
  /\ DupFrame

\* one pass of the loop 'for entity in entities'
FilterStep ==
  /\ dstage = "loop"
  /\ next_entity <= Len(entities)
  /\ \E entity \in {entities[next_entity]} : \E k \in {FirstSimilar(entity, unique_entities)} :
       unique_entities' =
         IF k = 0 THEN Append(unique_entities, entity)
         ELSE IF entity.confidence > unique_entities[k].confidence
              THEN Append(Remove(unique_entities, unique_entities[k]), entity)
         ELSE unique_entities
  /\ next_entity' = next_entity + 1
  /\ UNCHANGED <<entities, dstage>>
  /\ DupFrame

\* return unique_entities
DupReturn ==
  /\ dstage = "loop"
  /\ next_entity > Len(entities)
  /\ dstage' = "returned"
  /\ UNCHANGED <<entities, unique_entities, next_entity>>
  /\ DupFrame

DupNext == AppendEntity \/ DupStart \/ FilterStep \/ DupReturn

SpecDup == DupInit /\ [][DupNext]_vars

\* C19: filter_duplicates returns unique entities: no two entities of the
\* result have a similarity of the threshold or more, and of two input
\* entities that are duplicates of each other the one of the lower
\* confidence is not kept beside or instead of the other
UniqueEntitiesReturned ==
  dstage = "returned" =>
    /\ \A i, j \in 1..Len(unique_entities) :
         i < j => ~SimilarAtLeast(unique_entities[i], unique_entities[j], SimilarityThreshold)
    /\ \A i, j \in 1..Len(entities) :
         (/\ SimilarAtLeast(entities[i], entities[j], SimilarityThreshold)
          /\ entities[i].confidence < entities[j].confidence)
           => \/ \E k \in 1..Len(unique_entities) : unique_entities[k] = entities[j]
              \/ \A k \in 1..Len(unique_entities) : unique_entities[k] # entities[i]

(***************************************************************************)
(* GoogleDriveManager.retry_operation as a state machine: one action per   *)
(* outcome of a call of operation.  An exception is the record of its      *)
(* class, its HTTP status (0 if it has none) and the attempt that raised   *)
(* it; a result is the record of the attempt that returned it.  The sleep  *)
(* between two attempts takes time and changes nothing.                    *)
(***************************************************************************)
MaxRetries == 2

\* the statuses of the test 'e.resp.status in [429, 500, 502, 503, 504]'
RetryableStatuses == {429, 500, 502, 503, 504}

\* the statuses of an HttpError
HttpStatuses == RetryableStatuses \cup {403, 404}

HttpError(status, n) == [class |-> "HttpError", status |-> status, attempt |-> n]

OtherException(n) == [class |-> "Exception", status |-> 0, attempt |-> n]

\* raise last_exception when last_exception is None
TypeError == [class |-> "TypeError", status |-> 0, attempt |-> -1]

Returned(n) == [class |-> "result", status |-> 0, attempt |-> n]

RetryInit ==
  /\ CoreIdle /\ RetryOthersIdle
  /\ max_retries \in -1..MaxRetries
  /\ attempt = 0
  /\ calls = <<>>
  /\ last_exception = None
  /\ retry_outcome = None
  /\ retry_stage = "loop"

RetryFrame == UNCHANGED <<coreVars, retryOthers>>

\* the range(max_retries + 1) has another value
InLoop == retry_stage = "loop" /\ attempt < max_retries + 1

\* return operation(*args, **kwargs)
OperationReturns ==
  /\ InLoop
  /\ calls' = Append(calls, Returned(attempt))
  /\ retry_outcome' = Returned(attempt)
  /\ retry_stage' = "returned"
  /\ UNCHANGED <<max_retries, attempt, last_exception>>
  /\ RetryFrame

\* except HttpError as e
OperationRaisesHttpError ==
  /\ InLoop
  /\ \E status \in HttpStatuses : \E e \in {HttpError(status, attempt)} :
       /\ calls' = Append(calls, e)
       /\ last_exception' = e
       /\ IF status \in RetryableStatuses /\ attempt < max_retries
          THEN attempt' = attempt + 1 /\ UNCHANGED <<retry_outcome, retry_stage>>
          ELSE retry_outcome' = e /\ retry_stage' = "raised" /\ UNCHANGED attempt
  /\ UNCHANGED max_retries
  /\ RetryFrame

\* an except branch that returns None when the retries are used up
OperationRaisesSwallowed ==
  /\ InLoop
  /\ \E e \in {OtherException(attempt)} :
       /\ calls' = Append(calls, e)
       /\ last_exception' = e
       /\ IF attempt < max_retries
          THEN attempt' = attempt + 1 /\ UNCHANGED <<retry_outcome, retry_stage>>
          ELSE retry_outcome' = None /\ retry_stage' = "returned" /\ UNCHANGED attempt
  /\ UNCHANGED max_retries
  /\ RetryFrame

\* except Exception as e
OperationRaises ==
  /\ InLoop
  /\ \E e \in {OtherException(attempt)} :
       /\ calls' = Append(calls, e)
       /\ last_exception' = e
       /\ IF attempt < max_retries
          THEN attempt' = attempt + 1 /\ UNCHANGED <<retry_outcome, retry_stage>>
          ELSE retry_outcome' = e /\ retry_stage' = "raised" /\ UNCHANGED attempt
  /\ UNCHANGED max_retries
  /\ RetryFrame

\* the loop is over: raise last_exception
RetriesExhausted ==
  /\ retry_stage = "loop"
  /\ ~(attempt < max_retries + 1)
  /\ retry_outcome' = IF last_exception = None THEN TypeError ELSE last_exception
  /\ retry_stage' = "raised"
  /\ UNCHANGED <<max_retries, attempt, calls, last_exception>>
  /\ RetryFrame

RetryNext ==
  OperationReturns \/ OperationRaisesHttpError \/ OperationRaises \/ RetriesExhausted

\* every call of operation and every raise comes to an end
SpecRetry == RetryInit /\ [][RetryNext]_vars /\ WF_vars(RetryNext)

Raising(call) == call.class # "result"

\* what holds in every state of retry_operation
RetryBounded ==
  /\ Len(calls) <= max_retries + 1
  /\ retry_stage = "returned" =>
       /\ calls # <<>>
       /\ retry_outcome = calls[Len(calls)]
       /\ ~Raising(calls[Len(calls)])
       /\ \A k \in 1..(Len(calls) - 1) : Raising(calls[k])
  /\ (retry_stage = "raised" /\ calls # <<>>) =>
       /\ \A k \in 1..Len(calls) : Raising(calls[k])
       /\ retry_outcome = calls[Len(calls)]

\* C20: retry_operation calls the operation at most max_retries + 1 times,
\* returns the result of the first call that does not raise, raises the
\* exception of the last call when every call raised, and comes to an end
RetryContract == []RetryBounded /\ <>(retry_stage \in {"returned", "raised"})

\* every one of three calls raised, and the exception of the third is raised
ThirdExceptionRaised ==
  /\ retry_stage = "raised"
  /\ max_retries = 2
  /\ Len(calls) = 3
  /\ retry_outcome = calls[3]
  /\ retry_outcome.attempt = 2

(***************************************************************************)
(* FileTracker.  A FileRecord is the record of its processing_status,     *)
(* its processing_attempts, its error_message (the step of                 *)
(* process_single_file that raised, "" for None) and the age of its       *)
(* last_processed: -1 for None, 0 for at most one hour ago, 1 for more    *)
(* than one hour and at most two, 2 for more than two hours.              *)
(***************************************************************************)
\* the default of the parameter max_attempts
DefaultMaxAttempts == 3

\* a should_process_file without the branch for a completed record
should_process_unfinished(recs, file_id, max_attempts) ==
  IF recs[file_id] = None THEN TRUE
  ELSE LET record == recs[file_id]
       IN IF /\ record.processing_status = "failed"
             /\ record.processing_attempts >= max_attempts
          THEN FALSE
          ELSE IF record.processing_status = "in_progress" THEN record.age >= 1
          ELSE TRUE

\* FileTracker.should_process_file(file_id, max_attempts=max_attempts), no
\* file_path given
should_process_file(recs, file_id, max_attempts) ==
  IF recs[file_id] = None THEN TRUE
  ELSE LET record == recs[file_id]
       IN IF record.processing_status = "completed" THEN FALSE
          ELSE IF /\ record.processing_status = "failed"
                  /\ record.processing_attempts >= max_attempts
               THEN FALSE
          ELSE IF record.processing_status = "in_progress" THEN record.age >= 1
          ELSE TRUE

\* FileTracker.add_or_update_file(file_id, filename, metadata=...)
add_or_update_file(recs, file_id) ==
  IF recs[file_id] # None THEN recs
  ELSE [recs EXCEPT ![file_id] =
          [processing_status |-> "pending", processing_attempts |-> 0,
           error_message |-> "", age |-> -1]]

\* FileTracker.mark_processing_started(file_id)
mark_processing_started(recs, file_id) ==
  IF recs[file_id] = None THEN recs
  ELSE [recs EXCEPT ![file_id] =
          [processing_status |-> "in_progress",
           processing_attempts |-> recs[file_id].processing_attempts + 1,
           error_message |-> "", age |-> 0]]

\* FileTracker.mark_processing_completed(file_id, output_files)
mark_processing_completed(recs, file_id) ==
  IF recs[file_id] = None THEN recs
  ELSE [recs EXCEPT ![file_id] =
          [processing_status |-> "completed",
           processing_attempts |-> recs[file_id].processing_attempts,
           error_message |-> "", age |-> 0]]

\* FileTracker.mark_processing_failed(file_id, error_message)
mark_processing_failed(recs, file_id, error_message) ==
  IF recs[file_id] = None THEN recs
  ELSE [recs EXCEPT ![file_id] =
          [processing_status |-> "failed",
           processing_attempts |-> recs[file_id].processing_attempts,
           error_message |-> error_message, age |-> 0]]

\* FileTracker.reset_stale_in_progress(), max_age_hours = 2
reset_stale_in_progress(recs) ==
  [f \in Files |->
     IF recs[f] # None /\ recs[f].processing_status = "in_progress" /\ recs[f].age = 2
     THEN [recs[f] EXCEPT !.processing_status = "pending"]
     ELSE recs[f]]

\* the file ids of a set in the order of the records
RECURSIVE InOrder(_)
InOrder(ids) ==
  IF ids = {} THEN <<>>
  ELSE LET first == CHOOSE f \in ids : \A g \in ids : f = g \/ <<f, g>> \in {<<"f1", "f2">>}
       IN <<first>> \o InOrder(ids \ {first})

\* FileTracker.get_failed_files(max_attempts), as file ids
get_failed_files(recs, max_attempts) ==
  InOrder({f \in Files :
             /\ recs[f] # None
             /\ recs[f].processing_status = "failed"
             /\ recs[f].processing_attempts < max_attempts})

\* an hour passes
Older(recs) ==
  [f \in Files |->
     IF recs[f] # None /\ recs[f].age \in {0, 1}
     THEN [recs[f] EXCEPT !.age = recs[f].age + 1]
     ELSE recs[f]]

(***************************************************************************)
(* HindiPDFPipeline as a state machine of threads.  Every thread is in one *)
(* call at a time (run_single_cycle, process_file_by_id,                   *)
(* reprocess_failed_files, stop, run_continuous) and takes one step of it  *)
(* at a time; the steps of different threads interleave.  A step that      *)
(* fails is a choice of the model, as is the answer of Google Drive.       *)
(***************************************************************************)
MaxCalls == 4

\* processing_attempts is counted up to this number
MaxAttemptCount == 4

\* the values of the argument max_attempts of reprocess_failed_files, or of
\* config.max_retries when it is not given
ReprocessMaxAttempts == {3, 5}

\* the steps of process_single_file after the download, in their order
StepAfter ==
  [download |-> "extract", extract |-> "text", text |-> "csv", csv |-> "upload",
   upload |-> "summary", summary |-> "complete"]

\* the places between mark_processing_started and mark_processing_completed
\* or mark_processing_failed
Working == DOMAIN StepAfter \cup {"complete", "except"}

RunFrame == UNCHANGED <<coreVars, runOthers, drive_files>>

Goto(t, frame) == frames' = [frames EXCEPT ![t] = frame]

\* the thread t starts a call
Calling(t) == frames[t].call = "idle" /\ calls_made < MaxCalls

\* process_single_file: should_process_file(file_id) is False, return True
ProcessDeclined(t) ==
  /\ frames[t].pc = "psf_check"
  /\ ~should_process_file(records, frames[t].file, DefaultMaxAttempts)
  /\ Goto(t, [frames[t] EXCEPT !.pc = "psf_done", !.ret = "True", !.marked = FALSE])
  /\ UNCHANGED <<records, is_running, should_stop, completed_at, calls_made>>
  /\ RunFrame

\* process_single_file: should_process_file(file_id) is True
ProcessAccepted(t) ==
  /\ frames[t].pc = "psf_check"
  /\ should_process_file(records, frames[t].file, DefaultMaxAttempts)
  /\ Goto(t, [frames[t] EXCEPT !.pc = "psf_mark"])
  /\ UNCHANGED <<records, is_running, should_stop, completed_at, calls_made>>
  /\ RunFrame

\* process_single_file: add_or_update_file and mark_processing_started
ProcessStarted(t) ==
  /\ frames[t].pc = "psf_mark"
  /\ \E recs \in {add_or_update_file(records, frames[t].file)} :
       /\ recs[frames[t].file].processing_attempts < MaxAttemptCount
       /\ records' = mark_processing_started(recs, frames[t].file)
  /\ Goto(t, [frames[t] EXCEPT !.pc = "download", !.marked = TRUE, !.downloads = 0,
                               !.step_error = ""])
  /\ UNCHANGED <<is_running, should_stop, completed_at, calls_made>>
  /\ RunFrame

\* step 1: retry_operation(download_file, ...).  download_file catches every
\* exception and returns False, so retry_operation returns what the first
\* call returned
Download(t) ==
  /\ frames[t].pc = "download"
  /\ \E success \in BOOLEAN :
       Goto(t, [frames[t] EXCEPT !.downloads = @ + 1,
                                 !.pc = IF success THEN StepAfter["download"] ELSE "except",
                                 !.step_error = IF success THEN "" ELSE "download"])
  /\ UNCHANGED <<records, is_running, should_stop, completed_at, calls_made>>
  /\ RunFrame

\* steps 2 to 6: the step is done, or it raises
Step(t) ==
  /\ frames[t].pc \in DOMAIN StepAfter \ {"download"}
  /\ \E raises \in BOOLEAN :
       Goto(t, [frames[t] EXCEPT !.pc = IF raises THEN "except" ELSE StepAfter[frames[t].pc],
                                 !.step_error = IF raises THEN frames[t].pc ELSE ""])
  /\ UNCHANGED <<records, is_running, should_stop, completed_at, calls_made>>
  /\ RunFrame

\* mark_processing_completed, clean-up, return True
Complete(t) ==
  /\ frames[t].pc = "complete"
  /\ records' = mark_processing_completed(records, frames[t].file)
  /\ completed_at' =
       [completed_at EXCEPT ![frames[t].file] = records[frames[t].file].processing_attempts]
  /\ Goto(t, [frames[t] EXCEPT !.pc = "psf_done", !.ret = "True",
                               !.completed = @ \cup {frames[t].file}])
  /\ UNCHANGED <<is_running, should_stop, calls_made>>
  /\ RunFrame

\* an except branch that returns False and leaves the record as it is
ExceptUnmarked(t) ==
  /\ frames[t].pc = "except"
  /\ Goto(t, [frames[t] EXCEPT !.pc = "psf_done", !.ret = "False"])
  /\ UNCHANGED <<records, is_running, should_stop, completed_at, calls_made>>
  /\ RunFrame

\* except Exception: mark_processing_failed, return False
Except(t) ==
  /\ frames[t].pc = "except"
  /\ records' = mark_processing_failed(records, frames[t].file, frames[t].step_error)
  /\ Goto(t, [frames[t] EXCEPT !.pc = "psf_done", !.ret = "False"])
  /\ UNCHANGED <<is_running, should_stop, completed_at, calls_made>>
  /\ RunFrame

\* a KeyboardInterrupt while a file is processed: no except branch of
\* process_single_file, process_file_by_id or reprocess_failed_files catches
\* it, the finally of run_single_cycle runs
Interrupt(t) ==
  /\ frames[t].pc \in Working
  /\ frames[t].call \in {"cycle", "by_id", "reprocess"}
  /\ Goto(t, IF frames[t].call = "cycle"
             THEN [IdleFrame EXCEPT !.call = "cycle", !.pc = "finally",
                                    !.result = "interrupted"]
             ELSE IdleFrame)
  /\ UNCHANGED <<records, is_running, should_stop, completed_at, calls_made>>
  /\ RunFrame

\* an hour passes
Tick ==
  /\ \E f \in Files : records[f] # None /\ records[f].age \in {0, 1}
  /\ records' = Older(records)
  /\ UNCHANGED <<is_running, should_stop, frames, completed_at, calls_made>>
  /\ RunFrame

\* the thread may enter run_single_cycle: it calls it, or it is in the loop
\* of run_continuous and _should_stop is False
EntersCycle(t) ==
  \/ Calling(t)
  \/ frames[t].call = "continuous" /\ frames[t].pc = "while" /\ ~should_stop

\* the first block of run_single_cycle has found a cycle running
SkippedFrame(t) ==
  [frames[t] EXCEPT !.call = IF @ = "idle" THEN "cycle" ELSE @,
                    !.pc = "skipped", !.result = "skipped"]

\* the count of calls after the thread has entered run_single_cycle
CallsAfterCycle(t) == IF frames[t].call = "idle" THEN calls_made + 1 ELSE calls_made

\* a first block that clears is_running when it finds a cycle running
CycleSkippedAndCleared(t) ==
  /\ EntersCycle(t)
  /\ is_running
  /\ is_running' = FALSE
  /\ calls_made' = CallsAfterCycle(t)
  /\ Goto(t, SkippedFrame(t))
  /\ UNCHANGED <<records, should_stop, completed_at>>
  /\ RunFrame

\* run_single_cycle: under the lock, a cycle is running: status 'skipped'
CycleSkipped(t) ==
  /\ EntersCycle(t)
  /\ is_running
  /\ calls_made' = CallsAfterCycle(t)
  /\ Goto(t, SkippedFrame(t))
  /\ UNCHANGED <<records, is_running, should_stop, completed_at>>
  /\ RunFrame

\* run_single_cycle: the status 'skipped' is returned, to the caller or to the
\* loop of run_continuous
CycleSkippedReturns(t) ==
  /\ frames[t].pc = "skipped"
  /\ Goto(t, IF frames[t].call = "continuous"
             THEN [IdleFrame EXCEPT !.call = "continuous", !.pc = "sleep"]
             ELSE IdleFrame)
  /\ UNCHANGED <<records, is_running, should_stop, completed_at, calls_made>>
  /\ RunFrame

\* run_single_cycle: under the lock, is_running is False and is set
CycleBegins(t) ==
  /\ EntersCycle(t)
  /\ ~is_running
  /\ is_running' = TRUE
  /\ calls_made' = CallsAfterCycle(t)
  /\ Goto(t, [frames[t] EXCEPT !.call = IF @ = "idle" THEN "cycle" ELSE @,
                               !.pc = "reset", !.result = "none"])
  /\ UNCHANGED <<records, should_stop, completed_at>>
  /\ RunFrame

\* run_single_cycle: reset_stale_in_progress()
CycleReset(t) ==
  /\ frames[t].pc = "reset"
  /\ records' = reset_stale_in_progress(records)
  /\ Goto(t, [frames[t] EXCEPT !.pc = "list"])
  /\ UNCHANGED <<is_running, should_stop, completed_at, calls_made>>
  /\ RunFrame

\* run_single_cycle: the listing of the folder raises, is empty, or has a
\* first file
CycleList(t) ==
  /\ frames[t].pc = "list"
  /\ \E listing \in {"raises", "empty"} \cup drive_files :
       Goto(t, IF listing \in Files
               THEN [frames[t] EXCEPT !.pc = "loop", !.file = listing]
               ELSE [frames[t] EXCEPT !.pc = "finally",
                                      !.result = IF listing = "raises" THEN "error"
                                                 ELSE "success"])
  /\ UNCHANGED <<records, is_running, should_stop, completed_at, calls_made>>
  /\ RunFrame

\* run_single_cycle: a loop that does not look at _should_stop
CycleLoopUnstopped(t) ==
  /\ frames[t].pc = "loop"
  /\ Goto(t, [frames[t] EXCEPT !.pc = "cycle_check"])
  /\ UNCHANGED <<records, is_running, should_stop, completed_at, calls_made>>
  /\ RunFrame

\* run_single_cycle: 'if self._should_stop: break' at the head of the loop
CycleLoop(t) ==
  /\ frames[t].pc = "loop"
  /\ Goto(t, IF should_stop THEN [frames[t] EXCEPT !.pc = "finally", !.result = "success"]
             ELSE [frames[t] EXCEPT !.pc = "cycle_check"])
  /\ UNCHANGED <<records, is_running, should_stop, completed_at, calls_made>>
  /\ RunFrame

\* run_single_cycle: file_metadata['id'] or file_metadata['name'] raises
CycleRaises(t) ==
  /\ frames[t].pc = "cycle_check"
  /\ Goto(t, [frames[t] EXCEPT !.pc = "finally", !.result = "exception"])
  /\ UNCHANGED <<records, is_running, should_stop, completed_at, calls_made>>
  /\ RunFrame

\* run_single_cycle: should_process_file(file_id), then process_single_file
CycleCheck(t) ==
  /\ frames[t].pc = "cycle_check"
  /\ Goto(t, IF should_process_file(records, frames[t].file, DefaultMaxAttempts)
             THEN [frames[t] EXCEPT !.pc = "psf_check"]
             ELSE [frames[t] EXCEPT !.pc = "finally", !.result = "success"])
  /\ UNCHANGED <<records, is_running, should_stop, completed_at, calls_made>>
  /\ RunFrame

\* run_single_cycle: process_single_file has returned, the cycle is counted
CycleCounted(t) ==
  /\ frames[t].call \in {"cycle", "continuous"}
  /\ frames[t].pc = "psf_done"
  /\ Goto(t, [IdleFrame EXCEPT !.call = frames[t].call, !.pc = "finally",
                               !.result = "success"])
  /\ UNCHANGED <<records, is_running, should_stop, completed_at, calls_made>>
  /\ RunFrame

\* run_single_cycle: finally: is_running = False
CycleFinally(t) ==
  /\ frames[t].pc = "finally"
  /\ is_running' = FALSE
  /\ Goto(t, IF frames[t].call = "continuous"
             THEN [IdleFrame EXCEPT !.call = "continuous", !.pc = "sleep"]
             ELSE IdleFrame)
  /\ UNCHANGED <<records, should_stop, completed_at, calls_made>>
  /\ RunFrame

\* process_file_by_id: get_file_metadata gives nothing or raises, return
\* False; or process_single_file is called
ProcessById(t) ==
  /\ Calling(t)
  /\ calls_made' = calls_made + 1
  /\ \E f \in drive_files, metadata \in BOOLEAN :
       Goto(t, IF metadata THEN [IdleFrame EXCEPT !.call = "by_id", !.pc = "psf_check", !.file = f]
               ELSE IdleFrame)
  /\ UNCHANGED <<records, is_running, should_stop, completed_at>>
  /\ RunFrame

\* process_file_by_id: return what process_single_file returned
ByIdReturns(t) ==
  /\ frames[t].call = "by_id"
  /\ frames[t].pc = "psf_done"
  /\ Goto(t, IdleFrame)
  /\ UNCHANGED <<records, is_running, should_stop, completed_at, calls_made>>
  /\ RunFrame

\* reprocess_failed_files(max_attempts): get_failed_files, the results dict
Reprocess(t) ==
  /\ Calling(t)
  /\ calls_made' = calls_made + 1
  /\ \E max_attempts \in ReprocessMaxAttempts :
       \E failed_files \in {get_failed_files(records, max_attempts)} :
         Goto(t, IF failed_files = <<>> THEN IdleFrame
                 ELSE [IdleFrame EXCEPT !.call = "reprocess", !.pc = "reprocess_loop",
                                        !.max_attempts = max_attempts,
                                        !.failed_files = failed_files,
                                        !.results = [NoResults EXCEPT
                                                       !.total_files = Len(failed_files)]])
  /\ UNCHANGED <<records, is_running, should_stop, completed_at>>
  /\ RunFrame

\* reprocess_failed_files: the head of the loop: the loop is over, or
\* _should_stop is set, or get_file_metadata gives nothing, or raises, or
\* process_single_file is called
ReprocessLoop(t) ==
  /\ frames[t].pc = "reprocess_loop"
  /\ IF frames[t].failed_files = <<>> \/ should_stop
     THEN Goto(t, [frames[t] EXCEPT !.pc = "reprocess_done"])
     ELSE \E metadata \in {"none", "raises", "found"} :
            Goto(t, IF metadata = "found"
                    THEN [frames[t] EXCEPT !.pc = "psf_check",
                                           !.file = Head(frames[t].failed_files)]
                    ELSE [frames[t] EXCEPT
                            !.failed_files = Tail(@),
                            !.results = IF metadata = "none"
                                        THEN [@ EXCEPT !.skipped = @ + 1]
                                        ELSE [@ EXCEPT !.failed = @ + 1]])
  /\ UNCHANGED <<records, is_running, should_stop, completed_at, calls_made>>
  /\ RunFrame

\* reprocess_failed_files: process_single_file has returned
ReprocessCounted(t) ==
  /\ frames[t].call = "reprocess"
  /\ frames[t].pc = "psf_done"
  /\ Goto(t, [frames[t] EXCEPT
                !.pc = "reprocess_loop", !.file = "", !.marked = FALSE, !.downloads = 0,
                !.step_error = "", !.ret = "none",
                !.failed_files = Tail(@),
                !.results = IF frames[t].ret = "True" THEN [@ EXCEPT !.processed = @ + 1]
                            ELSE [@ EXCEPT !.failed = @ + 1]])
  /\ UNCHANGED <<records, is_running, should_stop, completed_at, calls_made>>
  /\ RunFrame

\* reprocess_failed_files: return results
ReprocessReturns(t) ==
  /\ frames[t].pc = "reprocess_done"
  /\ Goto(t, IdleFrame)
  /\ UNCHANGED <<records, is_running, should_stop, completed_at, calls_made>>
  /\ RunFrame

\* stop(): self._should_stop = True
Stop(t) ==
  /\ Calling(t)
  /\ calls_made' = calls_made + 1
  /\ should_stop' = TRUE
  /\ Goto(t, [IdleFrame EXCEPT !.call = "stop", !.pc = "wait"])
  /\ UNCHANGED <<records, is_running, completed_at>>
  /\ RunFrame

\* stop(): is_running is False, return
StopReturns(t) ==
  /\ frames[t].pc = "wait"
  /\ ~is_running
  /\ Goto(t, IdleFrame)
  /\ UNCHANGED <<records, is_running, should_stop, completed_at, calls_made>>
  /\ RunFrame

\* run_continuous()
Continuous(t) ==
  /\ Calling(t)
  /\ calls_made' = calls_made + 1
  /\ Goto(t, [IdleFrame EXCEPT !.call = "continuous", !.pc = "while"])
  /\ UNCHANGED <<records, is_running, should_stop, completed_at>>
  /\ RunFrame

\* run_continuous: the sleep after a cycle, if _should_stop is False
ContinuousSleeps(t) ==
  /\ frames[t].pc = "sleep"
  /\ Goto(t, [frames[t] EXCEPT !.pc = "while"])
  /\ UNCHANGED <<records, is_running, should_stop, completed_at, calls_made>>
  /\ RunFrame

\* run_continuous: 'while not self._should_stop' is over
ContinuousReturns(t) ==
  /\ frames[t].call = "continuous"
  /\ frames[t].pc = "while"
  /\ should_stop
  /\ Goto(t, IdleFrame)
  /\ UNCHANGED <<records, is_running, should_stop, completed_at, calls_made>>
  /\ RunFrame

\* the steps of process_single_file
ProcessSingleFile(t) ==
  \/ ProcessDeclined(t) \/ ProcessAccepted(t) \/ ProcessStarted(t) \/ Download(t)
  \/ Step(t) \/ Complete(t) \/ Except(t)

\* the steps of run_single_cycle after its first block
CycleBody(t) ==
  \/ CycleReset(t) \/ CycleList(t) \/ CycleLoop(t) \/ CycleRaises(t) \/ CycleCheck(t)
  \/ CycleCounted(t) \/ CycleFinally(t)

\* one thread calls run_single_cycle, process_file_by_id and
\* reprocess_failed_files one after the other; hours pass, and a file at
\* work may be interrupted
SequentialNext ==
  \/ \E t \in {1} :
       \/ CycleBegins(t) \/ CycleBody(t) \/ ProcessSingleFile(t)
       \/ ProcessById(t) \/ ByIdReturns(t)
       \/ Reprocess(t) \/ ReprocessLoop(t) \/ ReprocessCounted(t) \/ ReprocessReturns(t)
       \/ Interrupt(t)
  \/ Tick

\* no record, no call, and the input folder holds the given files
RunStart(files) ==
  /\ records = [f \in Files |-> None]
  /\ is_running = FALSE
  /\ should_stop = FALSE
  /\ frames = [t \in Threads |-> IdleFrame]
  /\ completed_at = [f \in Files |-> -1]
  /\ calls_made = 0
  /\ drive_files = files

RunInit == CoreIdle /\ RunOthersIdle /\ RunStart(Files)

SpecSequential == RunInit /\ [][SequentialNext]_vars

AttemptsBounded ==
  \A f \in Files :
    records[f] # None => records[f].processing_attempts <= DefaultMaxAttempts

(***************************************************************************)
(* C23.  process_single_file downloads with retry: a download_file that    *)
(* fails is attempted again before the file is marked FAILED, so a file    *)
(* whose download failed has been marked FAILED only after more than one   *)
(* call of download_file.                                                  *)
(***************************************************************************)
DownloadRetried ==
  \A t \in Threads :
    ( /\ frames[t].pc = "psf_done"
      /\ frames[t].marked
      /\ frames[t].ret = "False"
      /\ records[frames[t].file].processing_status = "failed"
      /\ records[frames[t].file].error_message = "download" )
    => frames[t].downloads >= 2

(***************************************************************************)
(* C26.  process_single_file never leaves a record IN_PROGRESS: whenever   *)
(* it has marked a file IN_PROGRESS, the record is COMPLETED when it       *)
(* returns True and FAILED, with an error message, when it returns False,  *)
(* whichever step has failed.                                              *)
(***************************************************************************)
MarkedFileSettled ==
  \A t \in Threads :
    (frames[t].pc = "psf_done" /\ frames[t].marked) =>
      /\ frames[t].ret \in {"True", "False"}
      /\ frames[t].ret = "True" =>
           records[frames[t].file].processing_status = "completed"
      /\ frames[t].ret = "False" =>
           /\ records[frames[t].file].processing_status = "failed"
           /\ records[frames[t].file].error_message # ""

\* process_single_file has returned False after the upload has failed, on the
\* second attempt at the file
UploadFailedTwice ==
  /\ frames[1].pc = "psf_done"
  /\ frames[1].marked
  /\ frames[1].ret = "False"
  /\ frames[1].step_error = "upload"
  /\ records[frames[1].file].processing_attempts = 2

(***************************************************************************)
(* C27.  reprocess_failed_files reports truthful counts: when it returns,  *)
(* results['processed'] is the number of files whose record became         *)
(* COMPLETED during the call, and processed + failed + skipped is at most  *)
(* total_files; a file that process_single_file declines is not counted as *)
(* processed.                                                              *)
(***************************************************************************)
ReprocessCountsTruthful ==
  \A t \in Threads :
    frames[t].pc = "reprocess_done" =>
      /\ frames[t].results.processed = Cardinality(frames[t].completed)
      /\ frames[t].results.processed + frames[t].results.failed + frames[t].results.skipped
           <= frames[t].results.total_files

\* the threads of one HindiPDFPipeline call run_single_cycle,
\* process_file_by_id, reprocess_failed_files, stop and run_continuous, and
\* their steps interleave
ConcurrentNext ==
  \E t \in Threads :
    \/ CycleSkipped(t) \/ CycleSkippedReturns(t) \/ CycleBegins(t) \/ CycleBody(t)
    \/ ProcessSingleFile(t)
    \/ ProcessById(t) \/ ByIdReturns(t)
    \/ Reprocess(t) \/ ReprocessLoop(t) \/ ReprocessCounted(t) \/ ReprocessReturns(t)
    \/ Stop(t) \/ StopReturns(t)
    \/ Continuous(t) \/ ContinuousSleeps(t) \/ ContinuousReturns(t)

ConcurrentInit == CoreIdle /\ RunOthersIdle /\ RunStart({"f1"})

SpecConcurrent == ConcurrentInit /\ [][ConcurrentNext]_vars

\* the thread t is in the body of run_single_cycle: after the first block
\* that has set is_running, and not after the finally
InCycleBody(t) ==
  /\ frames[t].call \in {"cycle", "continuous"}
  /\ frames[t].pc \in {"reset", "list", "loop", "cycle_check", "finally",
                       "psf_check", "psf_mark", "psf_done"} \cup Working

\* at most one thread is in the body of a cycle, and is_running says whether
\* one is
OneCycleRunning ==
  /\ \A t, u \in Threads : InCycleBody(t) /\ InCycleBody(u) => t = u
  /\ is_running <=> \E t \in Threads : InCycleBody(t)

\* the thread t finds a cycle running in this step
FindsCycleRunning(t) == frames[t].pc # "skipped" /\ frames'[t].pc = "skipped"

(***************************************************************************)
(* C24.  Processing cycles are mutually exclusive: under any interleaving  *)
(* of run_single_cycle calls at most one call executes the cycle body at a *)
(* time; a call that finds a cycle running returns 'skipped' without       *)
(* touching a file record and without clearing is_running, and the call    *)
(* that has set is_running clears it on every exit path, so that           *)
(* is_running is True exactly while a call is in the body.                 *)
(***************************************************************************)
CyclesExclusive ==
  /\ []OneCycleRunning
  /\ [][\A t \in Threads :
          FindsCycleRunning(t) =>
            /\ frames'[t].result = "skipped"
            /\ UNCHANGED <<records, is_running, completed_at>>]_vars

\* one call is skipped while the other is in the body of its cycle, at a file
CycleSkippedWhileProcessing ==
  /\ frames[1].pc = "skipped"
  /\ frames[1].call = "cycle"
  /\ InCycleBody(2)
  /\ frames[2].pc \in Working
  /\ is_running

\* the executions of process_single_file that are between
\* mark_processing_started and mark_processing_completed or
\* mark_processing_failed for the file f
ExecutionsAt(f) ==
  {t \in Threads : frames[t].file = f /\ frames[t].marked /\ frames[t].pc \in Working}

(***************************************************************************)
(* C25.  A file is never processed by two executions at once: for every    *)
(* file_id at most one execution of process_single_file is between         *)
(* mark_processing_started and mark_processing_completed or                *)
(* mark_processing_failed, whichever of run_single_cycle,                  *)
(* process_file_by_id and reprocess_failed_files has started it and        *)
(* however the threads interleave.                                         *)
(***************************************************************************)
OneExecutionPerFile == \A f \in Files : Cardinality(ExecutionsAt(f)) <= 1

\* the steps of the thread t in run_single_cycle, reprocess_failed_files,
\* stop and run_continuous
ThreadNext(t) ==
  \/ CycleSkipped(t) \/ CycleSkippedReturns(t) \/ CycleBegins(t) \/ CycleBody(t)
  \/ ProcessSingleFile(t)
  \/ Reprocess(t) \/ ReprocessLoop(t) \/ ReprocessCounted(t) \/ ReprocessReturns(t)
  \/ Stop(t) \/ StopReturns(t)
  \/ Continuous(t) \/ ContinuousSleeps(t) \/ ContinuousReturns(t)

StoppingNext == \E t \in Threads : ThreadNext(t)

\* every thread goes on: a file at work finishes, a sleep ends
SpecStopping ==
  ConcurrentInit /\ [][StoppingNext]_vars /\ \A t \in Threads : WF_vars(ThreadNext(t))

\* the thread t starts a file in run_single_cycle, run_continuous or
\* reprocess_failed_files: it calls mark_processing_started
StartsFile(t) ==
  /\ frames[t].call \in {"cycle", "continuous", "reprocess"}
  /\ frames[t].pc = "psf_mark"
  /\ frames'[t].pc = "download"

\* the thread t leaves the head of a loop that looks at _should_stop
LeavesLoopHead(t) ==
  /\ frames[t].pc \in {"loop", "reprocess_loop", "while"}
  /\ frames'[t] # frames[t]

\* no cycle runs, no stop() waits and no run_continuous loops
Stopped ==
  /\ ~is_running
  /\ \A t \in Threads : frames[t].call \notin {"cycle", "continuous", "stop"}

(***************************************************************************)
(* C28.  Graceful stop: after stop() has been called no new file starts    *)
(* processing in run_single_cycle or reprocess_failed_files.               *)
(***************************************************************************)
NoFileStartsAfterStop == [][\A t \in Threads : StartsFile(t) => ~should_stop]_vars

(***************************************************************************)
(* C28, as the code has it.  After stop() has been called, a loop of       *)
(* run_single_cycle, reprocess_failed_files or run_continuous that comes   *)
(* to its head is left without another file or cycle (a file whose turn    *)
(* had passed the head before stop() is still processed), and, every       *)
(* thread going on, the running cycle ends, is_running becomes False,      *)
(* stop() returns and run_continuous leaves its loop.                      *)
(***************************************************************************)
GracefulStop ==
  /\ [][\A t \in Threads :
          (should_stop /\ LeavesLoopHead(t)) =>
            /\ frames'[t].pc \in {"finally", "reprocess_done", "idle"}
            /\ UNCHANGED records]_vars
  /\ should_stop ~> Stopped

\* stop() waits while the cycle of the other thread is at a file
StopWaitsForFile ==
  /\ should_stop
  /\ frames[1].call = "stop"
  /\ frames[1].pc = "wait"
  /\ is_running
  /\ frames[2].call = "continuous"
  /\ frames[2].pc \in Working

(***************************************************************************)
(* Config: the dictionary _config, of which the keys that _validate_config *)
(* looks at are kept, and update.                                          *)
(***************************************************************************)
ConfigFrame == UNCHANGED <<coreVars, configOthers>>

\* Config._load_config with INPUT_FOLDER_ID and OUTPUT_FOLDER_ID set in the
\* environment and the defaults of the other keys
LoadedConfig ==
  [input_folder_id |-> "test_input", output_folder_id |-> "test_output",
   polling_interval_seconds |-> 60, max_retries |-> 3, retry_delay_seconds |-> 5]

\* the values an update may give to a key
UpdateValues ==
  [input_folder_id |-> {"", "other_input"}, output_folder_id |-> {"", "other_output"},
   polling_interval_seconds |-> {0, 1, 300}, max_retries |-> {-1, 0},
   retry_delay_seconds |-> {-1, 0}]

\* the dictionaries over some of the given keys, each key with one of its values
UpdatesOf(keys) ==
  {u \in UNION {[ks -> UNION {UpdateValues[k] : k \in ks}] : ks \in SUBSET keys} :
     \A k \in DOMAIN u : u[k] \in UpdateValues[k]}

MaxUpdateKeys == 2

\* the dictionaries given to update
Updates ==
  {u \in {folders @@ numbers :
            folders \in UpdatesOf({"input_folder_id", "output_folder_id"}),
            numbers \in UpdatesOf({"polling_interval_seconds", "max_retries",
                                   "retry_delay_seconds"})} :
     Cardinality(DOMAIN u) <= MaxUpdateKeys}

\* dict.update
DictUpdate(dict, updates) ==
  [k \in DOMAIN dict \cup DOMAIN updates |->
     IF k \in DOMAIN updates THEN updates[k] ELSE dict[k]]

\* Config._validate_config: the list of errors, as a set; a ValueError is
\* raised when there is one
ValidationErrors(cfg) ==
  {e \in {"INPUT_FOLDER_ID is required", "OUTPUT_FOLDER_ID is required",
          "POLLING_INTERVAL_SECONDS must be at least 1", "MAX_RETRIES must be non-negative",
          "RETRY_DELAY_SECONDS must be non-negative"} :
     \/ e = "INPUT_FOLDER_ID is required" /\ cfg.input_folder_id = ""
     \/ e = "OUTPUT_FOLDER_ID is required" /\ cfg.output_folder_id = ""
     \/ e = "POLLING_INTERVAL_SECONDS must be at least 1" /\ cfg.polling_interval_seconds < 1
     \/ e = "MAX_RETRIES must be non-negative" /\ cfg.max_retries < 0
     \/ e = "RETRY_DELAY_SECONDS must be non-negative" /\ cfg.retry_delay_seconds < 0}

ConfigInit ==
  /\ CoreIdle /\ ConfigOthersIdle
  /\ config = LoadedConfig
  /\ config_before = LoadedConfig
  /\ update_outcome = "none"

\* Config.update(updates): self._config.update(updates), then _validate_config()
Update(updates) ==
  /\ config_before' = config
  /\ config' = DictUpdate(config, updates)
  /\ update_outcome' = IF ValidationErrors(config') = {} THEN "returned" ELSE "ValueError"
  /\ ConfigFrame

ConfigNext == \E updates \in Updates : Update(updates)

SpecConfig == ConfigInit /\ [][ConfigNext]_vars

(***************************************************************************)
(* C29.  A rejected configuration update leaves the configuration          *)
(* unchanged: when Config.update is given values that fail validation it   *)
(* raises ValueError and every configuration value read afterwards is the  *)
(* value it had before the call.                                           *)
(***************************************************************************)
RejectedUpdateChangesNothing ==
  update_outcome = "ValueError" => \A k \in DOMAIN config : config[k] = config_before[k]

=============================================================================
